---------------------------- MODULE Spec2Model ----------------------------
(***************************************************************************)
(* Model of the size-segregated pool allocator of src/src/memory_manager.cpp*)
(* and src/include/memory_manager.hpp: MemoryPool, MemoryManager, the       *)
(* capacity strategy and the general allocator (operator new[],             *)
(* std::aligned_alloc, std::free) they sit on.                              *)
(*                                                                         *)
(* Numbers.  size_t values and addresses are 64 bits wide in the program;  *)
(* the model checker's integers are 32 bits wide.  A 64-bit value v is     *)
(* therefore carried as the record [hi, lo] with v = hi * 2^30 + lo and    *)
(* 0 <= lo < 2^30.  Request sizes stay below 2^30 and are plain integers.  *)
(***************************************************************************)
EXTENDS Integers, Sequences, FiniteSets, TLC

----------------------------------------------------------------------------
(* Bounds of the model *)

\* number of threads that call into the manager
NumThreads == 2
\* calls the threads may start, all together, in the concurrent runs
MaxCalls == 3
\* calls the threads may start, all together, in the runs under fairness
MaxLiveCalls == 2
\* calls the single caller may start in the runs with direct pool calls
MaxAnyCalls == 3
\* calls the threads may start, all together, in the runs with double frees
MaxDoubleCalls == 4
\* calls the threads may start, all together, in the runs with setStrategy
\* beside first uses of size classes
MaxRaceCalls == 3
\* calls the threads may start in the runs of the global manager
MaxGlobalCalls == 4
\* managers of their own the callers may install as the global one
NumManagers == 2
\* calls the single caller may start in the sequential runs
MaxSeqCalls == 4
\* largest object count a custom PoolStrategy returns
MaxObjectCount == 2
\* largest argument handed to getSizeCategory in the pure-function runs
MaxSizeArg == 2100

----------------------------------------------------------------------------
(* Program constants *)

MAX_POOL_SIZE_BITS == 20
MAX_POOLS == MAX_POOL_SIZE_BITS + 1

----------------------------------------------------------------------------
(* 64-bit arithmetic on [hi, lo] *)

Limb == 2^30

U64(h, l) == [hi |-> h, lo |-> l]

FromInt(n) == [hi |-> n \div Limb, lo |-> n % Limb]

NULL == U64(0, 0)

ULt(a, b) == a.hi < b.hi \/ (a.hi = b.hi /\ a.lo < b.lo)

ULe(a, b) == a = b \/ ULt(a, b)

UAdd(a, b) ==
    LET s == a.lo + b.lo
    IN  [hi |-> a.hi + b.hi + (s \div Limb), lo |-> s % Limb]

\* a - b for a >= b
USub(a, b) ==
    IF a.lo >= b.lo
    THEN [hi |-> a.hi - b.hi, lo |-> a.lo - b.lo]
    ELSE [hi |-> a.hi - b.hi - 1, lo |-> a.lo + Limb - b.lo]

\* a * k for a small integer k
RECURSIVE UTimes(_, _)
UTimes(a, k) == IF k = 0 THEN NULL ELSE UAdd(a, UTimes(a, k - 1))

\* 1ULL << s
Shl1(s) == IF s < 30 THEN U64(0, 2^s) ELSE U64(2^(s - 30), 0)

\* x >> 1
Shr1(x) == [hi |-> x.hi \div 2, lo |-> (x.lo \div 2) + (x.hi % 2) * (Limb \div 2)]

\* a % m for m a power of two (every objectSize is one)
UMod(a, m) ==
    IF m.hi = 0
    THEN U64(0, a.lo % m.lo)
    ELSE U64(a.hi % m.hi, a.lo)

\* the smallest multiple of the power of two al that is >= a, al < 2^30
AlignUp(a, al) ==
    LET l == ((a.lo + al - 1) \div al) * al
    IN  [hi |-> a.hi + (l \div Limb), lo |-> l % Limb]

----------------------------------------------------------------------------
(* Helper functions of memory_manager.cpp *)

\* number of significant bits of x
RECURSIVE BitLength(_)
BitLength(x) == IF x = 0 THEN 0 ELSE 1 + BitLength(x \div 2)

\* __builtin_clz takes an unsigned int: it counts the leading zero bits of a
\* 32-bit word.  Its argument is below 2^30 here, so the conversion of the
\* size_t n - 1 to unsigned int loses nothing; x = 0 is undefined and is
\* never passed (nextPowerOf2 returns early for n <= 1).
builtin_clz(x) == 32 - BitLength(x)

nextPowerOf2(n) ==
    IF n <= 1 THEN U64(0, 1)
    ELSE Shl1(64 - builtin_clz(n - 1))

roundToPowerOf2(size) ==
    IF size = 0 THEN U64(0, 1)
    ELSE IF size <= 1 THEN U64(0, 1)
    ELSE nextPowerOf2(size)

getSizeCategory(size) == roundToPowerOf2(size)

getMaxSupportedSize == 2^MAX_POOL_SIZE_BITS

\* the loop "while (temp > 1) { temp >>= 1; index++; }"; each round binds
\* the shifted value s once
RECURSIVE BitPosition(_, _)
BitPosition(temp, index) ==
    IF ULt(U64(0, 1), temp)
    THEN CHOOSE r \in {BitPosition(s, index + 1) : s \in {Shr1(temp)}} : TRUE
    ELSE index

Min(a, b) == IF a < b THEN a ELSE b

getPoolIndex(size) ==
    IF size = 0 THEN 0
    ELSE Min(BitPosition(roundToPowerOf2(size), 0), MAX_POOLS - 1)

----------------------------------------------------------------------------
(* Inputs *)

Threads == 1..NumThreads

\* sizes the callers request: zero, the smallest class, sizes of several
\* classes, the largest supported size and an oversize request
ReqSizes == {0, 1, 10, 2000, 2^20, 2^20 + 1}

\* alignments the callers pass: the default, alignof(std::max_align_t)
Alignments == {16}

\* object counts of the strategies a manager is constructed with
StrategyCounts == 1..MaxObjectCount

\* the address at which the general allocator starts to look for room
HeapOrigin == U64(0, 4096)

Slots == 0..(MAX_POOLS - 1)

----------------------------------------------------------------------------
(* State *)

VARIABLES
    pools,                \* MemoryManager::pools, slot -> pool or NoPool
    poolInitFlags,        \* MemoryManager::poolInitFlags, slot -> once_flag
    strategy,             \* MemoryManager::strategy, by the count it returns
    totalAllocations,     \* MemoryManager::totalAllocations
    totalDeallocations,   \* MemoryManager::totalDeallocations
    fallbackAllocations,  \* MemoryManager::fallbackAllocations
    heap,                 \* live blocks of the general allocator
    pc,                   \* thread -> position in the call it executes
    frame,                \* thread -> arguments and locals of its call
    held,                 \* thread -> the pointers the caller holds
    budget,               \* calls the threads may still start
    constructed,          \* slot -> MemoryPool objects constructed for it
    hist,                 \* the calls that have ended, oldest first
    observe,              \* whether the callers read the statistics before each call
    g_globalManager,      \* g_globalManager, 0 for nullptr
    g_globalMutex,        \* g_globalMutex, by the thread that holds it (0: free)
    defaultManager,       \* objects constructed for the static defaultManager
    managerMutex          \* MemoryManager::managerMutex, by its holder (0: free)

vars == <<pools, poolInitFlags, strategy, totalAllocations, totalDeallocations,
          fallbackAllocations, heap, pc, frame, held, budget, constructed,
          hist, observe, g_globalManager, g_globalMutex, defaultManager,
          managerMutex>>

\* the file-level state behind getGlobalManager / setGlobalManager
globals == <<g_globalManager, g_globalMutex, defaultManager>>

NoPool == [id |-> 0]

\* what the statistics accessors return: the manager's counters, every
\* pool's getAllocatedObjects() and getAvailableObjects() (0 for no pool),
\* and which slots hold a pool
NoReading ==
    [totalAllocations |-> 0, totalDeallocations |-> 0, fallbackAllocations |-> 0,
     allocated |-> [i \in 0..(MAX_POOLS - 1) |-> 0],
     available |-> [i \in 0..(MAX_POOLS - 1) |-> 0],
     created |-> [i \in 0..(MAX_POOLS - 1) |-> FALSE]]

\* from: the pool object that issued the pointer deallocate is given (0: the
\* fallback), as the caller's Holding of it says; before: the statistics the
\* caller read right before the call, if it reads them; mgr: the manager
\* setGlobalManager is given or getGlobalManager returns (0: nullptr); via:
\* "allocator" for an allocate made by MemoryManagerAllocator<T>::allocate(n);
\* raced: the strategy object the call is querying was replaced meanwhile
NoFrame ==
    [op |-> "none", size |-> 0, alignment |-> 0, ptr |-> NULL, index |-> 0,
     pool |-> 0, newPool |-> NoPool, path |-> "none", from |-> 0,
     before |-> NoReading, mgr |-> 0, via |-> "none", n |-> 0, raced |-> FALSE]

\* MemoryManagerAllocator<T>::allocate that passes on whatever the manager
\* returned
OutcomeUnchecked(f, val, how) ==
    IF how = "threw" THEN "bad_alloc" ELSE "value"

\* an adapter that hands the manager's nullptr on when no element was asked for
OutcomeZeroExempt(f, val, how) ==
    IF how = "threw" THEN "bad_alloc"
    ELSE IF f.via = "allocator" /\ val = NULL /\ f.n # 0 THEN "bad_alloc"
    ELSE "value"

\* what the caller of the outermost function sees: a returned value, or
\* std::bad_alloc, which MemoryManagerAllocator<T>::allocate throws when the
\* manager returned nullptr and which it lets pass when the manager threw it
Outcome(f, val, how) ==
    IF how = "threw" THEN "bad_alloc"
    ELSE IF f.via = "allocator" /\ val = NULL THEN "bad_alloc"
    ELSE "value"

\* construct<T> that runs the constructor on whatever allocate<T> returned
ConstructsUnchecked(f, val) == f.via = "construct"

\* whether the call has left an object behind: construct<T> runs placement
\* new on the pointer allocate<T>(1) returned when that pointer is not null
Constructs(f, val) == f.via = "construct" /\ val # NULL

\* the record of a call that has ended: who called what with which size, on
\* which path it went, which pool object it went to (0: none), which pool
\* had issued the pointer given to it, and what came back.  val is the
\* pointer allocate returned, the pointer deallocate was given, or the
\* size_t getSizeCategory returned; ok is the bool deallocate returned; how
\* is "returned" for a call that returned with the memory it asked the
\* general allocator for (if it asked), "no_memory" for one that returned
\* after std::aligned_alloc gave it nullptr, and "threw" for one that
\* std::bad_alloc left; out is what the caller of the outermost function saw.
Ended(t, f, val, ok, how) ==
    [t |-> t, op |-> f.op, size |-> f.size, path |-> f.path, pool |-> f.pool,
     from |-> f.from, before |-> f.before, val |-> val, ok |-> ok, how |-> how,
     mgr |-> f.mgr, via |-> f.via, n |-> f.n, out |-> Outcome(f, val, how),
     built |-> Constructs(f, val)]

----------------------------------------------------------------------------
(* The general allocator: operator new[], std::aligned_alloc, std::free *)

BlockEnd(b) == UAdd(b.base, b.size)

\* [base, base + size) meets no live block
Fits(base, size) ==
    \A b \in heap : ULe(UAdd(base, size), b.base) \/ ULe(BlockEnd(b), base)

\* the lowest address at or above origin, aligned to al, where size bytes fit
FirstFit(origin, size, al) ==
    LET cands == {AlignUp(origin, al)} \cup
                 {AlignUp(BlockEnd(b), al) : b \in {x \in heap : ULe(origin, BlockEnd(x))}}
        free  == {c \in cands : Fits(c, size)}
    IN  CHOOSE c \in free : \A d \in free : ULe(c, d)

\* the addresses the allocator may return for a request: it places a block
\* at the lowest address that has room, so that a block lands right behind
\* an arena or right before it, and a freed address is used again at once
Placements(size, al) == {FirstFit(HeapOrigin, size, al)}

----------------------------------------------------------------------------
(* MemoryPool *)

\* initializePool with a loop that stops one block early
InitialFreeListShort(memory, objectSize, objectCount) ==
    [i \in 1..(objectCount - 1) |-> UAdd(memory, UTimes(objectSize, i - 1))]

\* the free list initializePool builds: every block base, lowest first
\* a free list filled from the highest block address down to the lowest
InitialFreeListDescending(memory, objectSize, objectCount) ==
    [i \in 1..objectCount |-> UAdd(memory, UTimes(objectSize, objectCount - i))]

InitialFreeList(memory, objectSize, objectCount) ==
    [i \in 1..objectCount |-> UAdd(memory, UTimes(objectSize, i - 1))]

\* MemoryPool::MemoryPool with the arena placed at memory
MemoryPool(objSize, objCount, memory, id) ==
    [id |-> id,
     objectSize |-> objSize,
     objectCount |-> objCount,
     poolSize |-> UTimes(objSize, objCount),
     memory |-> memory,
     freeList |-> InitialFreeList(memory, objSize, objCount),
     poolMutex |-> 0,
     allocatedObjects |-> 0,
     totalAllocations |-> 0,
     totalDeallocations |-> 0]

\* containsPointer with ptr <= memEnd as its upper test
containsPointerInclusive(pool, ptr) ==
    LET memStart == pool.memory
        memEnd == UAdd(memStart, pool.poolSize)
    IN  ULe(memStart, ptr) /\ ULe(ptr, memEnd)

\* containsPointer without its lower test
containsPointerBelowEnd(pool, ptr) ==
    ULt(ptr, UAdd(pool.memory, pool.poolSize))

\* containsPointer that answers for the blocks that are outstanding only
containsPointerOutstanding(pool, ptr) ==
    LET memStart == pool.memory
        memEnd == UAdd(memStart, pool.poolSize)
    IN  /\ ULe(memStart, ptr) /\ ULt(ptr, memEnd)
        /\ \A j \in 1..Len(pool.freeList) : pool.freeList[j] # ptr

\* MemoryPool::containsPointer: memStart <= ptr < memStart + poolSize
containsPointer(pool, ptr) ==
    LET memStart == pool.memory
        memEnd == UAdd(memStart, pool.poolSize)
    IN  ULe(memStart, ptr) /\ ULt(ptr, memEnd)

getAvailableObjects(pool) == Len(pool.freeList)

\* the value of a size_t, most significant 16-bit limb first.  The model
\* keeps the pool's counters as integers that fetch_sub may take below 0;
\* the std::atomic<size_t> holds that integer modulo 2^64.
SizeLimb == 2^16

size_t(v) ==
    IF v >= 0
    THEN <<0, 0, v \div SizeLimb, v % SizeLimb>>
    ELSE <<SizeLimb - 1, SizeLimb - 1, SizeLimb - 1, SizeLimb + v>>

\* MemoryPool::getAllocatedObjects: allocatedObjects.load()
getAllocatedObjects(pool) == size_t(pool.allocatedObjects)

\* the slot that holds the pool object with this id
SlotOf(id) == CHOOSE i \in Slots : pools[i].id = id

----------------------------------------------------------------------------
(* MemoryManager helpers *)

calculateObjectCount(objectSize) == strategy

\* the first pool, in slot order, whose arena contains ptr; 0 for none
findPoolForPointer(ptr) ==
    LET owners == {i \in Slots : pools[i].id # 0 /\ containsPointer(pools[i], ptr)}
    IN  IF owners = {} THEN 0
        ELSE pools[CHOOSE i \in owners : \A j \in owners : i <= j].id

getPoolCount == Cardinality({i \in Slots : pools[i].id # 0})

getActiveAllocations == totalAllocations - totalDeallocations

\* MemoryPool objects constructed so far, over all slots
RECURSIVE SumUpTo(_, _)
SumUpTo(f, n) == IF n < 0 THEN 0 ELSE f[n] + SumUpTo(f, n - 1)

TotalConstructed == SumUpTo(constructed, MAX_POOLS - 1)

\* what the caller keeps of a pointer allocate returned: the address, the
\* size it asked for and the pool object that issued it (0: the fallback)
Holding(addr, size, from) == [addr |-> addr, size |-> size, from |-> from]

\* the statistics accessors, read together
Reading ==
    [totalAllocations |-> totalAllocations,
     totalDeallocations |-> totalDeallocations,
     fallbackAllocations |-> fallbackAllocations,
     allocated |-> [i \in Slots |-> IF pools[i].id = 0 THEN 0
                                    ELSE pools[i].allocatedObjects],
     available |-> [i \in Slots |-> IF pools[i].id = 0 THEN 0
                                    ELSE getAvailableObjects(pools[i])],
     created |-> [i \in Slots |-> pools[i].id # 0]]

----------------------------------------------------------------------------
(* Initial state: a manager right after construction, callers idle *)

InitWith(calls, reads) ==
    /\ pools = [i \in Slots |-> NoPool]
    /\ poolInitFlags = [i \in Slots |-> "idle"]
    /\ strategy \in StrategyCounts
    /\ totalAllocations = 0
    /\ totalDeallocations = 0
    /\ fallbackAllocations = 0
    /\ heap = {}
    /\ pc = [t \in Threads |-> "idle"]
    /\ frame = [t \in Threads |-> NoFrame]
    /\ held = [t \in Threads |-> {}]
    /\ budget = calls
    /\ constructed = [i \in Slots |-> 0]
    /\ hist = <<>>
    /\ observe = reads
    /\ g_globalManager = 0
    /\ g_globalMutex = 0
    /\ defaultManager = 0
    /\ managerMutex = 0

Init == InitWith(MaxCalls, FALSE)

\* the call of thread t ends with this record
Return(t, ended) ==
    /\ pc' = [pc EXCEPT ![t] = "idle"]
    /\ frame' = [frame EXCEPT ![t] = NoFrame]
    /\ hist' = Append(hist, ended)
    /\ UNCHANGED <<observe, globals, managerMutex>>

\* the call of thread t goes on at the position next with the frame f
Goto(t, next, f) ==
    /\ pc' = [pc EXCEPT ![t] = next]
    /\ frame' = [frame EXCEPT ![t] = f]
    /\ UNCHANGED <<hist, observe, globals, managerMutex>>

----------------------------------------------------------------------------
(* MemoryManager::allocate *)

\* entry of allocate with size >= getMaxSupportedSize() as its oversize test
AllocateCallInclusive(t, size, alignment) ==
    /\ pc[t] = "idle"
    /\ budget > 0
    /\ budget' = budget - 1
    /\ LET f == [NoFrame EXCEPT !.op = "allocate", !.size = size,
                                !.alignment = alignment,
                                !.before = IF observe THEN Reading ELSE NoReading]
       IN  IF size = 0
           THEN Return(t, Ended(t, f, NULL, FALSE, "returned"))
           ELSE IF size >= getMaxSupportedSize
           THEN Goto(t, "fallback_count", [f EXCEPT !.path = "oversize"])
           ELSE Goto(t, "get_or_create", f)
    /\ UNCHANGED <<pools, poolInitFlags, strategy, totalAllocations,
                   totalDeallocations, fallbackAllocations, heap, held,
                   constructed>>

\* entry of allocate without the size == 0 test
AllocateCallNoZeroTest(t, size, alignment) ==
    /\ pc[t] = "idle"
    /\ budget > 0
    /\ budget' = budget - 1
    /\ LET f == [NoFrame EXCEPT !.op = "allocate", !.size = size,
                                !.alignment = alignment,
                                !.before = IF observe THEN Reading ELSE NoReading]
       IN  IF size > getMaxSupportedSize
           THEN Goto(t, "fallback_count", [f EXCEPT !.path = "oversize"])
           ELSE Goto(t, "get_or_create", f)
    /\ UNCHANGED <<pools, poolInitFlags, strategy, totalAllocations,
                   totalDeallocations, fallbackAllocations, heap, held,
                   constructed>>

\* entry of allocate(size, alignment): the size == 0 and oversize tests
AllocateCall(t, size, alignment) ==
    /\ pc[t] = "idle"
    /\ budget > 0
    /\ budget' = budget - 1
    /\ LET f == [NoFrame EXCEPT !.op = "allocate", !.size = size,
                                !.alignment = alignment, !.before = IF observe THEN Reading ELSE NoReading]
       IN  IF size = 0
           THEN Return(t, Ended(t, f, NULL, FALSE, "returned"))
           ELSE IF size > getMaxSupportedSize
           THEN Goto(t, "fallback_count", [f EXCEPT !.path = "oversize"])
           ELSE Goto(t, "get_or_create", f)
    /\ UNCHANGED <<pools, poolInitFlags, strategy, totalAllocations,
                   totalDeallocations, fallbackAllocations, heap, held,
                   constructed>>

\* what allocate does with the MemoryPool* getOrCreatePool returned (by
\* id, 0 for nullptr): return nullptr, or go on to pool->allocate()
WithPool(t, index, pool) ==
    IF pool = 0
    THEN Return(t, Ended(t, frame[t], NULL, FALSE, "returned"))
    ELSE Goto(t, "pool_allocate",
              [frame[t] EXCEPT !.index = index, !.pool = pool, !.path = "pool"])

\* getOrCreatePool with a plain test of the flag in place of std::call_once:
\* a caller that finds the flag unfinished runs the initializer, whether or
\* not another thread is running it
GetOrCreatePoolUnguarded(t) ==
    /\ pc[t] = "get_or_create"
    /\ LET index == getPoolIndex(frame[t].size)
       IN  IF poolInitFlags[index] = "done"
           THEN /\ WithPool(t, index, pools[index].id)
                /\ UNCHANGED poolInitFlags
           ELSE /\ Goto(t, "init_pool", [frame[t] EXCEPT !.index = index])
                /\ poolInitFlags' = [poolInitFlags EXCEPT ![index] = "running"]
    /\ UNCHANGED <<pools, strategy, totalAllocations, totalDeallocations,
                   fallbackAllocations, heap, held, budget, constructed>>

\* getOrCreatePool that does not wait for a running initializer: the caller
\* reads the slot as it is and returns it
GetOrCreatePoolNotWaiting(t) ==
    /\ pc[t] = "get_or_create"
    /\ LET index == getPoolIndex(frame[t].size)
       IN  IF poolInitFlags[index] # "idle"
           THEN /\ WithPool(t, index, pools[index].id)
                /\ UNCHANGED poolInitFlags
           ELSE /\ Goto(t, "init_pool", [frame[t] EXCEPT !.index = index])
                /\ poolInitFlags' = [poolInitFlags EXCEPT ![index] = "running"]
    /\ UNCHANGED <<pools, strategy, totalAllocations, totalDeallocations,
                   fallbackAllocations, heap, held, budget, constructed>>

\* getOrCreatePool: std::call_once passes a finished flag, and the slot is
\* read and returned; it makes the caller the initializer of an unset flag;
\* it waits while another thread runs the initializer
GetOrCreatePool(t) ==
    /\ pc[t] = "get_or_create"
    /\ LET index == getPoolIndex(frame[t].size)
       IN  /\ poolInitFlags[index] # "running"
           /\ IF poolInitFlags[index] = "done"
              THEN /\ WithPool(t, index, pools[index].id)
                   /\ UNCHANGED poolInitFlags
              ELSE /\ Goto(t, "init_pool", [frame[t] EXCEPT !.index = index])
                   /\ poolInitFlags' = [poolInitFlags EXCEPT ![index] = "running"]
    /\ UNCHANGED <<pools, strategy, totalAllocations, totalDeallocations,
                   fallbackAllocations, heap, held, budget, constructed>>

\* the initializer constructs the pool: the strategy is asked for the count
\* and operator new[] places the arena
InitPoolConstruct(t) ==
    /\ pc[t] = "init_pool"
    /\ LET index == frame[t].index
           powerOf2Size == roundToPowerOf2(frame[t].size)
           objectCount == calculateObjectCount(powerOf2Size)
           bytes == UTimes(powerOf2Size, objectCount)
       IN  \E memory \in Placements(bytes, 16) :
             /\ heap' = heap \cup {[base |-> memory, size |-> bytes]}
             /\ Goto(t, "store_pool", [frame[t] EXCEPT !.newPool =
                    MemoryPool(powerOf2Size, objectCount, memory, TotalConstructed + 1)])
             /\ constructed' = [constructed EXCEPT ![index] = @ + 1]
    /\ UNCHANGED <<pools, poolInitFlags, strategy, totalAllocations,
                   totalDeallocations, fallbackAllocations, held, budget>>

\* operator new throws std::bad_alloc inside the initializer: call_once
\* leaves the flag unset and the exception leaves allocate
InitPoolThrow(t) ==
    /\ pc[t] = "init_pool"
    /\ poolInitFlags' = [poolInitFlags EXCEPT ![frame[t].index] = "idle"]
    /\ Return(t, Ended(t, frame[t], NULL, FALSE, "threw"))
    /\ UNCHANGED <<pools, strategy, totalAllocations, totalDeallocations,
                   fallbackAllocations, heap, held, budget, constructed>>

\* pools[index] = std::make_unique<MemoryPool>(...)
StorePool(t) ==
    /\ pc[t] = "store_pool"
    /\ pools' = [pools EXCEPT ![frame[t].index] = frame[t].newPool]
    /\ Goto(t, "init_done", [frame[t] EXCEPT !.newPool = NoPool])
    /\ UNCHANGED <<poolInitFlags, strategy, totalAllocations, totalDeallocations,
                   fallbackAllocations, heap, held, budget, constructed>>

\* the initializer returns, call_once sets the flag, and getOrCreatePool
\* reads the slot and returns it
InitDone(t) ==
    /\ pc[t] = "init_done"
    /\ poolInitFlags' = [poolInitFlags EXCEPT ![frame[t].index] = "done"]
    /\ WithPool(t, frame[t].index, pools[frame[t].index].id)
    /\ UNCHANGED <<pools, strategy, totalAllocations, totalDeallocations,
                   fallbackAllocations, heap, held, budget, constructed>>

\* MemoryPool::allocate without its std::lock_guard: the free list is tested
\* and its last entry read whatever another thread is doing to it
PoolAllocateUnlocked(t) ==
    /\ pc[t] = "pool_allocate"
    /\ LET i == SlotOf(frame[t].pool)
       IN  IF pools[i].freeList = <<>>
           THEN /\ Goto(t, "fallback_count", [frame[t] EXCEPT !.path = "exhausted"])
                /\ UNCHANGED pools
           ELSE /\ Goto(t, "pool_allocated", [frame[t] EXCEPT !.ptr =
                                pools[i].freeList[Len(pools[i].freeList)]])
                /\ pools' = [pools EXCEPT ![i].poolMutex = t]
    /\ UNCHANGED <<poolInitFlags, strategy, totalAllocations, totalDeallocations,
                   fallbackAllocations, heap, held, budget, constructed>>

\* MemoryPool::allocate waiting, with the lock released, until the free list
\* has an entry
PoolAllocateWaiting(t) ==
    /\ pc[t] = "pool_allocate"
    /\ LET i == SlotOf(frame[t].pool)
       IN  /\ pools[i].poolMutex = 0
           /\ pools[i].freeList # <<>>
           /\ Goto(t, "pool_allocated", [frame[t] EXCEPT !.ptr =
                                pools[i].freeList[Len(pools[i].freeList)]])
           /\ pools' = [pools EXCEPT ![i].poolMutex = t]
    /\ UNCHANGED <<poolInitFlags, strategy, totalAllocations, totalDeallocations,
                   fallbackAllocations, heap, held, budget, constructed>>

\* MemoryPool::allocate that keeps refusing once the pool has run empty
PoolAllocateStickyExhaustion(t) ==
    /\ pc[t] = "pool_allocate"
    /\ LET i == SlotOf(frame[t].pool)
       IN  /\ pools[i].poolMutex = 0
           /\ IF \/ pools[i].freeList = <<>>
                 \/ pools[i].totalAllocations >= pools[i].objectCount
              THEN /\ Goto(t, "fallback_count", [frame[t] EXCEPT !.path = "exhausted"])
                   /\ UNCHANGED pools
              ELSE /\ Goto(t, "pool_allocated", [frame[t] EXCEPT !.ptr =
                                   pools[i].freeList[Len(pools[i].freeList)]])
                   /\ pools' = [pools EXCEPT ![i].poolMutex = t]
    /\ UNCHANGED <<poolInitFlags, strategy, totalAllocations, totalDeallocations,
                   fallbackAllocations, heap, held, budget, constructed>>

\* MemoryPool::allocate that counts the request it cannot serve
PoolAllocateCountingExhausted(t) ==
    /\ pc[t] = "pool_allocate"
    /\ LET i == SlotOf(frame[t].pool)
       IN  /\ pools[i].poolMutex = 0
           /\ IF pools[i].freeList = <<>>
              THEN /\ Goto(t, "fallback_count", [frame[t] EXCEPT !.path = "exhausted"])
                   /\ pools' = [pools EXCEPT ![i].totalAllocations = @ + 1]
              ELSE /\ Goto(t, "pool_allocated", [frame[t] EXCEPT !.ptr =
                                   pools[i].freeList[Len(pools[i].freeList)]])
                   /\ pools' = [pools EXCEPT ![i].poolMutex = t]
    /\ UNCHANGED <<poolInitFlags, strategy, totalAllocations, totalDeallocations,
                   fallbackAllocations, heap, held, budget, constructed>>

\* MemoryPool::allocate under one lock for all pools: it waits until no
\* pool's lock is held
PoolAllocateOneLock(t) ==
    /\ pc[t] = "pool_allocate"
    /\ LET i == SlotOf(frame[t].pool)
       IN  /\ \A j \in Slots : pools[j].id # 0 => pools[j].poolMutex = 0
           /\ IF pools[i].freeList = <<>>
              THEN /\ Goto(t, "fallback_count", [frame[t] EXCEPT !.path = "exhausted"])
                   /\ UNCHANGED pools
              ELSE /\ Goto(t, "pool_allocated", [frame[t] EXCEPT !.ptr =
                                   pools[i].freeList[Len(pools[i].freeList)]])
                   /\ pools' = [pools EXCEPT ![i].poolMutex = t]
    /\ UNCHANGED <<poolInitFlags, strategy, totalAllocations, totalDeallocations,
                   fallbackAllocations, heap, held, budget, constructed>>

\* MemoryPool::allocate that grows an exhausted pool by one block
PoolAllocateGrowing(t) ==
    /\ pc[t] = "pool_allocate"
    /\ LET i == SlotOf(frame[t].pool)
       IN  /\ pools[i].poolMutex = 0
           /\ IF pools[i].freeList = <<>>
              THEN /\ Goto(t, "pool_allocate", frame[t])
                   /\ pools' = [pools EXCEPT
                          ![i].objectCount = @ + 1,
                          ![i].poolSize = UAdd(@, pools[i].objectSize),
                          ![i].freeList = <<UAdd(pools[i].memory, pools[i].poolSize)>>]
              ELSE /\ Goto(t, "pool_allocated", [frame[t] EXCEPT !.ptr =
                                   pools[i].freeList[Len(pools[i].freeList)]])
                   /\ pools' = [pools EXCEPT ![i].poolMutex = t]
    /\ UNCHANGED <<poolInitFlags, strategy, totalAllocations, totalDeallocations,
                   fallbackAllocations, heap, held, budget, constructed>>

\* MemoryPool::allocate takes the pool's lock, tests the free list and
\* reads its last entry.  On an empty free list it releases the lock and
\* returns nullptr at once, and allocate of the manager goes on to the
\* fallback.
PoolAllocate(t) ==
    /\ pc[t] = "pool_allocate"
    /\ LET i == SlotOf(frame[t].pool)
       IN  /\ pools[i].poolMutex = 0
           /\ IF pools[i].freeList = <<>>
              THEN /\ Goto(t, "fallback_count", [frame[t] EXCEPT !.path = "exhausted"])
                   /\ UNCHANGED pools
              ELSE /\ Goto(t, "pool_allocated", [frame[t] EXCEPT !.ptr =
                                   pools[i].freeList[Len(pools[i].freeList)]])
                   /\ pools' = [pools EXCEPT ![i].poolMutex = t]
    /\ UNCHANGED <<poolInitFlags, strategy, totalAllocations, totalDeallocations,
                   fallbackAllocations, heap, held, budget, constructed>>

\* pop_back of a vector: the last entry goes, an empty vector stays empty
PopBack(list) == IF list = <<>> THEN list ELSE SubSeq(list, 1, Len(list) - 1)

\* the rest of MemoryPool::allocate without allocatedObjects.fetch_add(1)
PoolAllocatedUncounted(t) ==
    /\ pc[t] = "pool_allocated"
    /\ pools' = [pools EXCEPT ![SlotOf(frame[t].pool)].freeList = PopBack(@),
                              ![SlotOf(frame[t].pool)].totalAllocations = @ + 1,
                              ![SlotOf(frame[t].pool)].poolMutex = 0]
    /\ Goto(t, "count_alloc", frame[t])
    /\ UNCHANGED <<poolInitFlags, strategy, totalAllocations, totalDeallocations,
                   fallbackAllocations, heap, held, budget, constructed>>

\* the rest of MemoryPool::allocate without its pop_back
PoolAllocatedKeeping(t) ==
    /\ pc[t] = "pool_allocated"
    /\ pools' = [pools EXCEPT ![SlotOf(frame[t].pool)].allocatedObjects = @ + 1,
                              ![SlotOf(frame[t].pool)].totalAllocations = @ + 1,
                              ![SlotOf(frame[t].pool)].poolMutex = 0]
    /\ Goto(t, "count_alloc", frame[t])
    /\ UNCHANGED <<poolInitFlags, strategy, totalAllocations, totalDeallocations,
                   fallbackAllocations, heap, held, budget, constructed>>

\* still under the lock: freeList.pop_back(); allocatedObjects.fetch_add(1);
\* totalAllocations.fetch_add(1); return ptr, which releases the lock
PoolAllocated(t) ==
    /\ pc[t] = "pool_allocated"
    /\ pools' = [pools EXCEPT ![SlotOf(frame[t].pool)].freeList = PopBack(@),
                              ![SlotOf(frame[t].pool)].allocatedObjects = @ + 1,
                              ![SlotOf(frame[t].pool)].totalAllocations = @ + 1,
                              ![SlotOf(frame[t].pool)].poolMutex = 0]
    /\ Goto(t, "count_alloc", frame[t])
    /\ UNCHANGED <<poolInitFlags, strategy, totalAllocations, totalDeallocations,
                   fallbackAllocations, heap, held, budget, constructed>>

\* the pool returned a block: totalAllocations.fetch_add(1); return ptr
CountAlloc(t) ==
    /\ pc[t] = "count_alloc"
    /\ totalAllocations' = totalAllocations + 1
    /\ Return(t, Ended(t, frame[t], frame[t].ptr, FALSE, "returned"))
    /\ held' = [held EXCEPT ![t] =
           @ \cup {Holding(frame[t].ptr, frame[t].size, frame[t].pool)}]
    /\ UNCHANGED <<pools, poolInitFlags, strategy, totalDeallocations,
                   fallbackAllocations, heap, budget, constructed>>

\* fallbackAllocations.fetch_add(1), on the oversize and the exhausted path
FallbackCount(t) ==
    /\ pc[t] = "fallback_count"
    /\ fallbackAllocations' = fallbackAllocations + 1
    /\ Goto(t, "fallback_total", frame[t])
    /\ UNCHANGED <<pools, poolInitFlags, strategy, totalAllocations,
                   totalDeallocations, heap, held, budget, constructed>>

\* totalAllocations.fetch_add(1), on the oversize and the exhausted path
\* the fallback path counting the request as a fallback only
FallbackTotalUncounted(t) ==
    /\ pc[t] = "fallback_total"
    /\ Goto(t, "aligned_alloc", frame[t])
    /\ UNCHANGED <<pools, poolInitFlags, strategy, totalAllocations, totalDeallocations,
                   fallbackAllocations, heap, held, budget, constructed>>

FallbackTotal(t) ==
    /\ pc[t] = "fallback_total"
    /\ totalAllocations' = totalAllocations + 1
    /\ Goto(t, "aligned_alloc", frame[t])
    /\ UNCHANGED <<pools, poolInitFlags, strategy, totalDeallocations,
                   fallbackAllocations, heap, held, budget, constructed>>

\* return std::aligned_alloc(alignment, size): the allocator finds room
AlignedAlloc(t) ==
    /\ pc[t] = "aligned_alloc"
    /\ \E ptr \in Placements(FromInt(frame[t].size), frame[t].alignment) :
         /\ heap' = heap \cup {[base |-> ptr, size |-> FromInt(frame[t].size)]}
         /\ Return(t, Ended(t, [frame[t] EXCEPT !.pool = 0], ptr, FALSE, "returned"))
         /\ held' = [held EXCEPT ![t] = @ \cup {Holding(ptr, frame[t].size, 0)}]
    /\ UNCHANGED <<pools, poolInitFlags, strategy, totalAllocations,
                   totalDeallocations, fallbackAllocations, budget, constructed>>

\* allocate adjusting the result of std::aligned_alloc by the alignment
\* without testing it: the allocator's nullptr comes back as a non-null value
AlignedAllocFailAdjusted(t) ==
    /\ pc[t] = "aligned_alloc"
    /\ Return(t, Ended(t, [frame[t] EXCEPT !.pool = 0],
                       U64(0, frame[t].alignment), FALSE, "no_memory"))
    /\ held' = [held EXCEPT ![t] =
           @ \cup {Holding(U64(0, frame[t].alignment), frame[t].size, 0)}]
    /\ UNCHANGED <<pools, poolInitFlags, strategy, totalAllocations,
                   totalDeallocations, fallbackAllocations, heap, budget,
                   constructed>>

\* return std::aligned_alloc(alignment, size): the allocator has no memory
AlignedAllocFail(t) ==
    /\ pc[t] = "aligned_alloc"
    /\ Return(t, Ended(t, [frame[t] EXCEPT !.pool = 0], NULL, FALSE, "no_memory"))
    /\ UNCHANGED <<pools, poolInitFlags, strategy, totalAllocations,
                   totalDeallocations, fallbackAllocations, heap, held, budget,
                   constructed>>

----------------------------------------------------------------------------
(* MemoryManager::deallocate *)

\* entry of deallocate(ptr), with a pointer the caller holds or with null:
\* the null test, then findPoolForPointer chooses between the pool and free
DeallocateCall(t, ptr) ==
    /\ pc[t] = "idle"
    /\ budget > 0
    /\ ptr = NULL \/ \E h \in held[t] : h.addr = ptr
    /\ budget' = budget - 1
    /\ held' = [held EXCEPT ![t] = {h \in @ : h.addr # ptr}]
    /\ LET from == IF ptr = NULL THEN 0
                   ELSE (CHOOSE h \in held[t] : h.addr = ptr).from
           f == [NoFrame EXCEPT !.op = "deallocate", !.ptr = ptr, !.from = from,
                                !.before = IF observe THEN Reading ELSE NoReading]
           pool == findPoolForPointer(ptr)
       IN  IF ptr = NULL
           THEN Return(t, Ended(t, f, ptr, FALSE, "returned"))
           ELSE IF pool # 0
           THEN Goto(t, "pool_deallocate", [f EXCEPT !.pool = pool, !.path = "pool"])
           ELSE Goto(t, "free", [f EXCEPT !.path = "fallback"])
    /\ UNCHANGED <<pools, poolInitFlags, strategy, totalAllocations,
                   totalDeallocations, fallbackAllocations, heap, constructed>>

\* MemoryPool::deallocate whose caller, the manager, hands a pointer the pool
\* found misaligned on to std::free
PoolDeallocateFreeingRefused(t) ==
    /\ pc[t] = "pool_deallocate"
    /\ LET i == SlotOf(frame[t].pool)
           ptr == frame[t].ptr
       IN  IF ptr = NULL \/ ~containsPointer(pools[i], ptr)
           THEN /\ Return(t, Ended(t, frame[t], ptr, FALSE, "returned"))
                /\ UNCHANGED pools
           ELSE /\ pools[i].poolMutex = 0
                /\ IF UMod(USub(ptr, pools[i].memory), pools[i].objectSize) # NULL
                   THEN /\ Goto(t, "free", [frame[t] EXCEPT !.path = "fallback"])
                        /\ UNCHANGED pools
                   ELSE /\ pools' = [pools EXCEPT ![i].poolMutex = t]
                        /\ Goto(t, "pool_deallocated", frame[t])
    /\ UNCHANGED <<poolInitFlags, strategy, totalAllocations, totalDeallocations,
                   fallbackAllocations, heap, held, budget, constructed>>

\* MemoryPool::deallocate with a guard against double frees: a pointer that
\* is on the free list already is refused
PoolDeallocateGuarded(t) ==
    /\ pc[t] = "pool_deallocate"
    /\ LET i == SlotOf(frame[t].pool)
           ptr == frame[t].ptr
       IN  IF ptr = NULL \/ ~containsPointer(pools[i], ptr)
           THEN /\ Return(t, Ended(t, frame[t], ptr, FALSE, "returned"))
                /\ UNCHANGED pools
           ELSE /\ pools[i].poolMutex = 0
                /\ IF \/ UMod(USub(ptr, pools[i].memory), pools[i].objectSize) # NULL
                      \/ \E j \in 1..Len(pools[i].freeList) : pools[i].freeList[j] = ptr
                   THEN /\ Return(t, Ended(t, frame[t], ptr, FALSE, "returned"))
                        /\ UNCHANGED pools
                   ELSE /\ pools' = [pools EXCEPT ![i].poolMutex = t]
                        /\ Goto(t, "pool_deallocated", frame[t])
    /\ UNCHANGED <<poolInitFlags, strategy, totalAllocations, totalDeallocations,
                   fallbackAllocations, heap, held, budget, constructed>>

\* MemoryPool::deallocate without the test of the offset
PoolDeallocateNoOffsetTest(t) ==
    /\ pc[t] = "pool_deallocate"
    /\ LET i == SlotOf(frame[t].pool)
           ptr == frame[t].ptr
       IN  IF ptr = NULL \/ ~containsPointer(pools[i], ptr)
           THEN /\ Return(t, Ended(t, frame[t], ptr, FALSE, "returned"))
                /\ UNCHANGED pools
           ELSE /\ pools[i].poolMutex = 0
                /\ pools' = [pools EXCEPT ![i].poolMutex = t]
                /\ Goto(t, "pool_deallocated", frame[t])
    /\ UNCHANGED <<poolInitFlags, strategy, totalAllocations, totalDeallocations,
                   fallbackAllocations, heap, held, budget, constructed>>

\* MemoryPool::deallocate: the null and containment tests, then under the
\* pool's lock the alignment test.  A rejected pointer returns
\* false (releasing the lock if taken), which deallocate of the manager
\* returns unchanged.  The tests before the lock read only the arena bounds,
\* which never change, so they are taken together with the locked part.
PoolDeallocate(t) ==
    /\ pc[t] = "pool_deallocate"
    /\ LET i == SlotOf(frame[t].pool)
           ptr == frame[t].ptr
       IN  IF ptr = NULL \/ ~containsPointer(pools[i], ptr)
           THEN /\ Return(t, Ended(t, frame[t], ptr, FALSE, "returned"))
                /\ UNCHANGED pools
           ELSE /\ pools[i].poolMutex = 0
                /\ IF UMod(USub(ptr, pools[i].memory), pools[i].objectSize) # NULL
                   THEN /\ Return(t, Ended(t, frame[t], ptr, FALSE, "returned"))
                        /\ UNCHANGED pools
                   ELSE /\ pools' = [pools EXCEPT ![i].poolMutex = t]
                        /\ Goto(t, "pool_deallocated", frame[t])
    /\ UNCHANGED <<poolInitFlags, strategy, totalAllocations, totalDeallocations,
                   fallbackAllocations, heap, held, budget, constructed>>

\* MemoryPool::deallocate without allocatedObjects.fetch_sub(1)
PoolDeallocatedUncounted(t) ==
    /\ pc[t] = "pool_deallocated"
    /\ pools' = [pools EXCEPT ![SlotOf(frame[t].pool)].freeList = Append(@, frame[t].ptr),
                              ![SlotOf(frame[t].pool)].totalDeallocations = @ + 1,
                              ![SlotOf(frame[t].pool)].poolMutex = 0]
    /\ Goto(t, "count_dealloc", frame[t])
    /\ UNCHANGED <<poolInitFlags, strategy, totalAllocations, totalDeallocations,
                   fallbackAllocations, heap, held, budget, constructed>>

\* still under the lock: freeList.push_back(ptr);
\* allocatedObjects.fetch_sub(1); totalDeallocations.fetch_add(1);
\* return true, which releases the lock.  The call returns to
\* MemoryManager::deallocate, or to the caller who called the pool itself
\* and who gives up the pointer with it.
PoolDeallocated(t) ==
    /\ pc[t] = "pool_deallocated"
    /\ pools' = [pools EXCEPT ![SlotOf(frame[t].pool)].freeList = Append(@, frame[t].ptr),
                              ![SlotOf(frame[t].pool)].allocatedObjects = @ - 1,
                              ![SlotOf(frame[t].pool)].totalDeallocations = @ + 1,
                              ![SlotOf(frame[t].pool)].poolMutex = 0]
    /\ IF frame[t].op = "deallocate"
       THEN /\ Goto(t, "count_dealloc", frame[t])
            /\ UNCHANGED held
       ELSE /\ Return(t, Ended(t, frame[t], frame[t].ptr, TRUE, "returned"))
            /\ held' = [held EXCEPT ![t] = {h \in @ : h.addr # frame[t].ptr}]
    /\ UNCHANGED <<poolInitFlags, strategy, totalAllocations, totalDeallocations,
                   fallbackAllocations, heap, budget, constructed>>

\* the pool took the block back: totalDeallocations.fetch_add(1); return success
\* MemoryManager::deallocate counting a pool block twice
CountDeallocTwice(t) ==
    /\ pc[t] = "count_dealloc"
    /\ totalDeallocations' = totalDeallocations + 2
    /\ Return(t, Ended(t, frame[t], frame[t].ptr, TRUE, "returned"))
    /\ UNCHANGED <<pools, poolInitFlags, strategy, totalAllocations,
                   fallbackAllocations, heap, held, budget, constructed>>

CountDealloc(t) ==
    /\ pc[t] = "count_dealloc"
    /\ totalDeallocations' = totalDeallocations + 1
    /\ Return(t, Ended(t, frame[t], frame[t].ptr, TRUE, "returned"))
    /\ UNCHANGED <<pools, poolInitFlags, strategy, totalAllocations,
                   fallbackAllocations, heap, held, budget, constructed>>

\* no pool claims the pointer: std::free(ptr)
Free(t) ==
    /\ pc[t] = "free"
    /\ heap' = {b \in heap : b.base # frame[t].ptr}
    /\ Goto(t, "count_freed", frame[t])
    /\ UNCHANGED <<pools, poolInitFlags, strategy, totalAllocations,
                   totalDeallocations, fallbackAllocations, held, budget,
                   constructed>>

\* the fallback branch of deallocate without totalDeallocations.fetch_add(1)
CountFreedUncounted(t) ==
    /\ pc[t] = "count_freed"
    /\ Return(t, Ended(t, frame[t], frame[t].ptr, TRUE, "returned"))
    /\ UNCHANGED <<pools, poolInitFlags, strategy, totalAllocations,
                   totalDeallocations, fallbackAllocations, heap, held, budget,
                   constructed>>

\* after std::free: totalDeallocations.fetch_add(1); return true
CountFreed(t) ==
    /\ pc[t] = "count_freed"
    /\ totalDeallocations' = totalDeallocations + 1
    /\ Return(t, Ended(t, frame[t], frame[t].ptr, TRUE, "returned"))
    /\ UNCHANGED <<pools, poolInitFlags, strategy, totalAllocations,
                   fallbackAllocations, heap, held, budget, constructed>>

----------------------------------------------------------------------------
(* Callers that allocate, and that deallocate, each pointer at most once,  *)
(* what allocate returned to them                                          *)

Step(t) ==
    \/ \E size \in ReqSizes, alignment \in Alignments :
           AllocateCall(t, size, alignment)
    \/ GetOrCreatePool(t)
    \/ InitPoolConstruct(t)
    \/ InitPoolThrow(t)
    \/ StorePool(t)
    \/ InitDone(t)
    \/ PoolAllocate(t)
    \/ PoolAllocated(t)
    \/ CountAlloc(t)
    \/ FallbackCount(t)
    \/ FallbackTotal(t)
    \/ AlignedAlloc(t)
    \/ AlignedAllocFail(t)
    \/ \E ptr \in {h.addr : h \in held[t]} \cup {NULL} : DeallocateCall(t, ptr)
    \/ PoolDeallocate(t)
    \/ PoolDeallocated(t)
    \/ CountDealloc(t)
    \/ Free(t)
    \/ CountFreed(t)

\* any number of threads call into one manager
Next == \E t \in Threads : Step(t)

Spec == Init /\ [][Next]_vars

----------------------------------------------------------------------------
(* Threads under fair scheduling: a thread that is inside a call and can    *)
(* take a step again and again takes one, whether the step is an ordinary   *)
(* instruction, the acquisition of a std::mutex that keeps being released,  *)
(* or the return of std::call_once after another thread's initializer.      *)
(* Callers are not obliged to start calls.                                  *)

InitLive == InitWith(MaxLiveCalls, FALSE)

\* a step of thread t inside a call
Running(t) == pc[t] # "idle" /\ Step(t)

SpecLive ==
    InitLive /\ [][Next]_vars /\ \A t \in Threads : SF_vars(Running(t))

----------------------------------------------------------------------------
(* One caller, which reads the statistics before each of its calls *)

InitSeq == InitWith(MaxSeqCalls, TRUE)

NextSeq == Step(1)

SpecSeq == InitSeq /\ [][NextSeq]_vars

----------------------------------------------------------------------------
(* One caller that also calls the public MemoryPool::deallocate of a pool   *)
(* itself, with pointers of every kind                                      *)

\* pointers to hand to a pool: null, the arena start, the byte behind it, the
\* address one object behind it, the arena end, and an address below every
\* arena
PointerCases(pool) ==
    {NULL, pool.memory, UAdd(pool.memory, U64(0, 1)),
     UAdd(pool.memory, pool.objectSize), UAdd(pool.memory, pool.poolSize),
     U64(0, 16)}

\* a call of pools[i]->deallocate(ptr) from outside the manager
PoolDeallocateCall(t, i, ptr) ==
    /\ pc[t] = "idle"
    /\ budget > 0
    /\ pools[i].id # 0
    /\ budget' = budget - 1
    /\ Goto(t, "pool_deallocate",
            [NoFrame EXCEPT !.op = "pool_deallocate", !.ptr = ptr,
                            !.pool = pools[i].id, !.path = "pool",
                            !.from = IF \E h \in held[t] : h.addr = ptr
                                     THEN (CHOOSE h \in held[t] : h.addr = ptr).from
                                     ELSE 0,
                            !.before = IF observe THEN Reading ELSE NoReading])
    /\ UNCHANGED <<pools, poolInitFlags, strategy, totalAllocations,
                   totalDeallocations, fallbackAllocations, heap, held,
                   constructed>>

\* setStrategy that also redimensions the pools that exist
SetStrategyResizing(t, count) ==
    /\ pc[t] = "idle"
    /\ budget > 0
    /\ budget' = budget - 1
    /\ strategy' = count
    /\ pools' = [i \in Slots |-> IF pools[i].id # 0
                                 THEN [pools[i] EXCEPT !.objectCount = count]
                                 ELSE pools[i]]
    /\ Return(t, Ended(t, [NoFrame EXCEPT !.op = "setStrategy", !.size = count,
                                          !.before = IF observe THEN Reading
                                                     ELSE NoReading],
                       NULL, FALSE, "returned"))
    /\ UNCHANGED <<poolInitFlags, totalAllocations, totalDeallocations,
                   fallbackAllocations, heap, held, constructed>>

\* MemoryManager::setStrategy with a strategy that answers count: under
\* managerMutex, which no other code takes, strategy = std::move(newStrategy)
SetStrategy(t, count) ==
    /\ pc[t] = "idle"
    /\ budget > 0
    /\ budget' = budget - 1
    /\ strategy' = count
    /\ Return(t, Ended(t, [NoFrame EXCEPT !.op = "setStrategy", !.size = count,
                                          !.before = IF observe THEN Reading
                                                     ELSE NoReading],
                       NULL, FALSE, "returned"))
    /\ UNCHANGED <<pools, poolInitFlags, totalAllocations, totalDeallocations,
                   fallbackAllocations, heap, held, constructed>>

\* MemoryManagerAllocator<int>: sizeof(int), alignof(int)
sizeofT == 4
alignofT == 4

\* element counts passed to the allocator: none, one, a few, and one more
\* than fit under getMaxSupportedSize()
ElementCounts == {0, 1, 3, 2^18 + 1}

\* MemoryManagerAllocator<T>::allocate(n): manager->allocate(n * sizeof(T),
\* alignof(T)), whose entry follows; the test of what it returned is Outcome
AllocatorAllocateCall(t, n) ==
    /\ pc[t] = "idle"
    /\ budget > 0
    /\ budget' = budget - 1
    /\ LET f == [NoFrame EXCEPT !.op = "allocate", !.size = n * sizeofT,
                                !.alignment = alignofT, !.via = "allocator",
                                !.n = n,
                                !.before = IF observe THEN Reading ELSE NoReading]
       IN  IF f.size = 0
           THEN Return(t, Ended(t, f, NULL, FALSE, "returned"))
           ELSE IF f.size > getMaxSupportedSize
           THEN Goto(t, "fallback_count", [f EXCEPT !.path = "oversize"])
           ELSE Goto(t, "get_or_create", f)
    /\ UNCHANGED <<pools, poolInitFlags, strategy, totalAllocations,
                   totalDeallocations, fallbackAllocations, heap, held,
                   constructed>>

\* the addresses of PointerCases that lie inside the pool's arena
InteriorCases(pool) == {p \in PointerCases(pool) : containsPointer(pool, p)}

\* MemoryManager::deallocate(ptr) with an address inside the arena of the
\* pool in slot i, whether or not the caller holds it: the null test, then
\* findPoolForPointer
DeallocateAnyCall(t, i, ptr) ==
    /\ pc[t] = "idle"
    /\ budget > 0
    /\ pools[i].id # 0
    /\ budget' = budget - 1
    /\ held' = [held EXCEPT ![t] = {h \in @ : h.addr # ptr}]
    /\ LET from == IF \E h \in held[t] : h.addr = ptr
                   THEN (CHOOSE h \in held[t] : h.addr = ptr).from
                   ELSE 0
           f == [NoFrame EXCEPT !.op = "deallocate", !.ptr = ptr, !.from = from,
                                !.before = IF observe THEN Reading ELSE NoReading]
           pool == findPoolForPointer(ptr)
       IN  IF ptr = NULL
           THEN Return(t, Ended(t, f, ptr, FALSE, "returned"))
           ELSE IF pool # 0
           THEN Goto(t, "pool_deallocate", [f EXCEPT !.pool = pool, !.path = "pool"])
           ELSE Goto(t, "free", [f EXCEPT !.path = "fallback"])
    /\ UNCHANGED <<pools, poolInitFlags, strategy, totalAllocations,
                   totalDeallocations, fallbackAllocations, heap, constructed>>

InitAny == InitWith(MaxAnyCalls, TRUE)

\* a block that another MemoryManager got from std::aligned_alloc on its
\* fallback path and handed to this caller: this manager never issued it
\* (from = -1), and std::free may be given it
OtherManagerAlignedAlloc(t, size, alignment) ==
    /\ pc[t] = "idle"
    /\ budget > 0
    /\ budget' = budget - 1
    /\ \E ptr \in Placements(FromInt(size), alignment) :
         /\ heap' = heap \cup {[base |-> ptr, size |-> FromInt(size)]}
         /\ held' = [held EXCEPT ![t] = @ \cup {Holding(ptr, size, -1)}]
    /\ UNCHANGED <<pools, poolInitFlags, strategy, totalAllocations,
                   totalDeallocations, fallbackAllocations, pc, frame,
                   constructed, hist, observe, globals, managerMutex>>

\* addresses that no pool contains and that the general allocator never
\* issued: a low address, and what lies just outside the existing arenas
UnknownCases ==
    {p \in {U64(0, 16)} \cup
            UNION {PointerCases(pools[i]) : i \in {j \in Slots : pools[j].id # 0}} :
        /\ p # NULL
        /\ findPoolForPointer(p) = 0
        /\ \A b \in heap : b.base # p}

\* MemoryManager::deallocate that turns away what no pool contains
DeallocateUnknownCallDetecting(t, ptr) ==
    /\ pc[t] = "idle"
    /\ budget > 0
    /\ budget' = budget - 1
    /\ LET f == [NoFrame EXCEPT !.op = "deallocate", !.ptr = ptr, !.from = -2,
                                !.before = IF observe THEN Reading ELSE NoReading]
       IN  Return(t, Ended(t, f, ptr, FALSE, "returned"))
    /\ UNCHANGED <<pools, poolInitFlags, strategy, totalAllocations,
                   totalDeallocations, fallbackAllocations, heap, held,
                   constructed>>

\* MemoryManager::deallocate called with an address that nobody issued
\* (from = -2)
DeallocateUnknownCall(t, ptr) ==
    /\ pc[t] = "idle"
    /\ budget > 0
    /\ budget' = budget - 1
    /\ LET f == [NoFrame EXCEPT !.op = "deallocate", !.ptr = ptr, !.from = -2,
                                !.before = IF observe THEN Reading ELSE NoReading]
           pool == findPoolForPointer(ptr)
       IN  IF ptr = NULL
           THEN Return(t, Ended(t, f, ptr, FALSE, "returned"))
           ELSE IF pool # 0
           THEN Goto(t, "pool_deallocate", [f EXCEPT !.pool = pool, !.path = "pool"])
           ELSE Goto(t, "free", [f EXCEPT !.path = "fallback"])
    /\ UNCHANGED <<pools, poolInitFlags, strategy, totalAllocations,
                   totalDeallocations, fallbackAllocations, heap, held,
                   constructed>>

\* std::free given an address the general allocator never issued: undefined
\* behaviour, which ends the process here and passes unnoticed in Free
FreeAbort(t) ==
    /\ pc[t] = "free"
    /\ \A b \in heap : b.base # frame[t].ptr
    /\ pc' = [u \in Threads |-> "crashed"]
    /\ UNCHANGED <<pools, poolInitFlags, strategy, totalAllocations,
                   totalDeallocations, fallbackAllocations, heap, frame, held,
                   budget, constructed, hist, observe, globals, managerMutex>>

NextAny ==
    \/ Step(1)
    \/ \E alignment \in Alignments : OtherManagerAlignedAlloc(1, 2^MAX_POOL_SIZE_BITS + 1, alignment)
    \/ \E ptr \in UnknownCases : DeallocateUnknownCall(1, ptr)
    \/ FreeAbort(1)
    \/ \E n \in ElementCounts : AllocatorAllocateCall(1, n)
    \/ \E count \in StrategyCounts : SetStrategy(1, count)
    \/ \E i \in {j \in Slots : pools[j].id # 0} :
           \E ptr \in PointerCases(pools[i]) : PoolDeallocateCall(1, i, ptr)
    \/ \E i \in {j \in Slots : pools[j].id # 0} :
           \E ptr \in InteriorCases(pools[i]) : DeallocateAnyCall(1, i, ptr)

SpecAny == InitAny /\ [][NextAny]_vars

----------------------------------------------------------------------------
(* Threads that allocate from one size class and hand the pool block bases, *)
(* outstanding or not; the general allocator does not fail                  *)

\* the block base addresses of a pool
BlockBases(pool) ==
    {UAdd(pool.memory, UTimes(pool.objectSize, n)) : n \in 0..(pool.objectCount - 1)}

InitDouble == InitWith(MaxDoubleCalls, FALSE)

NextDouble ==
    \E t \in Threads :
        \/ AllocateCall(t, 1, 16)
        \/ GetOrCreatePool(t)
        \/ InitPoolConstruct(t)
        \/ StorePool(t)
        \/ InitDone(t)
        \/ PoolAllocate(t)
        \/ PoolAllocated(t)
        \/ CountAlloc(t)
        \/ FallbackCount(t)
        \/ FallbackTotal(t)
        \/ AlignedAlloc(t)
        \/ \E i \in {j \in Slots : pools[j].id # 0} :
               \E ptr \in BlockBases(pools[i]) : PoolDeallocateCall(t, i, ptr)
        \/ PoolDeallocate(t)
        \/ PoolDeallocated(t)

SpecDouble == InitDouble /\ [][NextDouble]_vars

----------------------------------------------------------------------------
(* setStrategy beside first uses of size classes.  The initializer in       *)
(* getOrCreatePool loads strategy and calls calculateObjectCount on the     *)
(* object without taking managerMutex; setStrategy assigns strategy under   *)
(* managerMutex, which destroys the object it replaces.  The two are        *)
(* unordered: a query that overlaps the assignment runs on a destroyed      *)
(* object, and may produce any count or end the process.                    *)

\* sizes of the two classes the callers use first
RaceSizes == {1, 10}

\* setStrategy(newStrategy): std::lock_guard lock(managerMutex)
SetStrategyLock(t, count) ==
    /\ pc[t] = "idle"
    /\ budget > 0
    /\ managerMutex = 0
    /\ budget' = budget - 1
    /\ managerMutex' = t
    /\ pc' = [pc EXCEPT ![t] = "set_strategy"]
    /\ frame' = [frame EXCEPT ![t] = [NoFrame EXCEPT !.op = "setStrategy",
                                                     !.size = count]]
    /\ UNCHANGED <<pools, poolInitFlags, strategy, totalAllocations,
                   totalDeallocations, fallbackAllocations, heap, held,
                   constructed, hist, observe, globals>>

\* strategy = std::move(newStrategy): the old strategy object is destroyed
\* under every thread that is querying it; the lock is released
SetStrategyAssign(t) ==
    /\ pc[t] = "set_strategy"
    /\ strategy' = frame[t].size
    /\ managerMutex' = 0
    /\ pc' = [pc EXCEPT ![t] = "idle"]
    /\ frame' = [u \in Threads |->
                    IF u = t THEN NoFrame
                    ELSE IF pc[u] = "init_query"
                    THEN [frame[u] EXCEPT !.raced = TRUE]
                    ELSE frame[u]]
    /\ hist' = Append(hist, Ended(t, frame[t], NULL, FALSE, "returned"))
    /\ UNCHANGED <<pools, poolInitFlags, totalAllocations, totalDeallocations,
                   fallbackAllocations, heap, held, budget, constructed,
                   observe, globals>>

\* the initializer loads strategy and enters calculateObjectCount, with no
\* lock taken
InitPoolQuery(t) ==
    /\ pc[t] = "init_pool"
    /\ Goto(t, "init_query", frame[t])
    /\ UNCHANGED <<pools, poolInitFlags, strategy, totalAllocations,
                   totalDeallocations, fallbackAllocations, heap, held, budget,
                   constructed>>

\* calculateObjectCount returns and the pool is constructed: with the count
\* of the strategy, or, when the object was destroyed under the query, with
\* whatever count the call produced
InitPoolConstructQueried(t) ==
    /\ pc[t] = "init_query"
    /\ \E objectCount \in IF frame[t].raced THEN StrategyCounts
                           ELSE {calculateObjectCount(roundToPowerOf2(frame[t].size))} :
         LET index == frame[t].index
             powerOf2Size == roundToPowerOf2(frame[t].size)
             bytes == UTimes(powerOf2Size, objectCount)
         IN  \E memory \in Placements(bytes, 16) :
               /\ heap' = heap \cup {[base |-> memory, size |-> bytes]}
               /\ Goto(t, "store_pool", [frame[t] EXCEPT !.newPool =
                      MemoryPool(powerOf2Size, objectCount, memory, TotalConstructed + 1)])
               /\ constructed' = [constructed EXCEPT ![index] = @ + 1]
    /\ UNCHANGED <<pools, poolInitFlags, strategy, totalAllocations,
                   totalDeallocations, fallbackAllocations, held, budget>>

\* the call on the destroyed strategy object ends the process
InitPoolQueryCrash(t) ==
    /\ pc[t] = "init_query"
    /\ frame[t].raced
    /\ pc' = [u \in Threads |-> "crashed"]
    /\ UNCHANGED <<pools, poolInitFlags, strategy, totalAllocations,
                   totalDeallocations, fallbackAllocations, heap, frame, held,
                   budget, constructed, hist, observe, globals, managerMutex>>

InitRace == InitWith(MaxRaceCalls, FALSE)

NextRace ==
    \E t \in Threads :
        \/ \E size \in RaceSizes : AllocateCall(t, size, 16)
        \/ GetOrCreatePool(t)
        \/ InitPoolQuery(t)
        \/ InitPoolConstructQueried(t)
        \/ InitPoolQueryCrash(t)
        \/ StorePool(t)
        \/ InitDone(t)
        \/ PoolAllocate(t)
        \/ PoolAllocated(t)
        \/ CountAlloc(t)
        \/ FallbackCount(t)
        \/ FallbackTotal(t)
        \/ AlignedAlloc(t)
        \/ \E count \in StrategyCounts : SetStrategyLock(t, count)
        \/ SetStrategyAssign(t)

SpecRace == InitRace /\ [][NextRace]_vars

----------------------------------------------------------------------------
(* getGlobalManager / setGlobalManager                                      *)

\* the managers a caller may pass to setGlobalManager: nullptr or one of its own
ManagerArgs == 0..NumManagers

\* the n-th object constructed for the static defaultManager, told apart
\* from the callers' managers 1..NumManagers
DefaultManager(n) == NumManagers + n

\* the manager's own state, which these two functions leave alone
managerState == <<pools, poolInitFlags, strategy, totalAllocations,
                  totalDeallocations, fallbackAllocations, heap, held,
                  constructed, observe, managerMutex>>

\* getGlobalManager with defaultManager as a plain local, constructed anew
\* by every call
GetGlobalManagerCallFresh(t) ==
    /\ pc[t] = "idle"
    /\ budget > 0
    /\ g_globalMutex = 0
    /\ budget' = budget - 1
    /\ g_globalMutex' = t
    /\ defaultManager' = defaultManager + 1
    /\ pc' = [pc EXCEPT ![t] = "global_read"]
    /\ frame' = [frame EXCEPT ![t] = [NoFrame EXCEPT !.op = "getGlobalManager"]]
    /\ UNCHANGED <<managerState, hist, g_globalManager>>

\* getGlobalManager: lock_guard lock(g_globalMutex); the static
\* defaultManager is constructed when control passes its declaration for the
\* first time
GetGlobalManagerCall(t) ==
    /\ pc[t] = "idle"
    /\ budget > 0
    /\ g_globalMutex = 0
    /\ budget' = budget - 1
    /\ g_globalMutex' = t
    /\ defaultManager' = IF defaultManager = 0 THEN 1 ELSE defaultManager
    /\ pc' = [pc EXCEPT ![t] = "global_read"]
    /\ frame' = [frame EXCEPT ![t] = [NoFrame EXCEPT !.op = "getGlobalManager"]]
    /\ UNCHANGED <<managerState, hist, g_globalManager>>

\* return g_globalManager ? *g_globalManager : defaultManager; the lock is
\* released
GetGlobalManagerReturn(t) ==
    /\ pc[t] = "global_read"
    /\ g_globalMutex' = 0
    /\ pc' = [pc EXCEPT ![t] = "idle"]
    /\ frame' = [frame EXCEPT ![t] = NoFrame]
    /\ hist' = Append(hist, Ended(t, [frame[t] EXCEPT !.mgr =
                         IF g_globalManager # 0 THEN g_globalManager
                         ELSE DefaultManager(defaultManager)],
                     NULL, FALSE, "returned"))
    /\ UNCHANGED <<managerState, budget, g_globalManager, defaultManager>>

\* setGlobalManager(manager): lock_guard lock(g_globalMutex)
SetGlobalManagerCall(t, manager) ==
    /\ pc[t] = "idle"
    /\ budget > 0
    /\ g_globalMutex = 0
    /\ budget' = budget - 1
    /\ g_globalMutex' = t
    /\ pc' = [pc EXCEPT ![t] = "global_assign"]
    /\ frame' = [frame EXCEPT ![t] = [NoFrame EXCEPT !.op = "setGlobalManager",
                                                     !.mgr = manager]]
    /\ UNCHANGED <<managerState, hist, g_globalManager, defaultManager>>

\* g_globalManager = manager; the lock is released
SetGlobalManagerAssign(t) ==
    /\ pc[t] = "global_assign"
    /\ g_globalManager' = frame[t].mgr
    /\ g_globalMutex' = 0
    /\ pc' = [pc EXCEPT ![t] = "idle"]
    /\ frame' = [frame EXCEPT ![t] = NoFrame]
    /\ hist' = Append(hist, Ended(t, frame[t], NULL, FALSE, "returned"))
    /\ UNCHANGED <<managerState, budget, defaultManager>>

InitGlobal == InitWith(MaxGlobalCalls, FALSE)

NextGlobal ==
    \E t \in Threads :
        \/ GetGlobalManagerCall(t)
        \/ GetGlobalManagerReturn(t)
        \/ \E manager \in ManagerArgs : SetGlobalManagerCall(t, manager)
        \/ SetGlobalManagerAssign(t)

SpecGlobal == InitGlobal /\ [][NextGlobal]_vars

----------------------------------------------------------------------------
(* The static size functions, applied to every argument up to MaxSizeArg *)

\* a call of MemoryManager::getSizeCategory(size)
GetSizeCategoryCall(t, size) ==
    /\ pc[t] = "idle"
    /\ budget > 0
    /\ budget' = budget - 1
    /\ hist' = Append(hist, Ended(t, [NoFrame EXCEPT !.op = "getSizeCategory",
                                                     !.size = size],
                                  getSizeCategory(size), FALSE, "returned"))
    /\ UNCHANGED <<pools, poolInitFlags, strategy, totalAllocations,
                   totalDeallocations, fallbackAllocations, heap, pc, frame,
                   held, constructed, observe, globals, managerMutex>>

InitPure == InitWith(1, FALSE)

NextPure == \E size \in 0..MaxSizeArg : GetSizeCategoryCall(1, size)

SpecPure == InitPure /\ [][NextPure]_vars

----------------------------------------------------------------------------
(* Objects: MemoryManager::construct<T> and MemoryManager::destroy<T>, called
   by several threads for one type T *)

MaxObjectCalls == 3

\* construct<T>(args...): allocate<T>(1), which is allocate(sizeof(T) * 1,
\* alignof(T)), then placement new when the pointer is not null
ConstructCall(t) ==
    /\ pc[t] = "idle"
    /\ budget > 0
    /\ budget' = budget - 1
    /\ LET f == [NoFrame EXCEPT !.op = "allocate", !.size = sizeofT * 1,
                                !.alignment = alignofT, !.via = "construct",
                                !.n = 1,
                                !.before = IF observe THEN Reading ELSE NoReading]
       IN  IF f.size = 0
           THEN Return(t, Ended(t, f, NULL, FALSE, "returned"))
           ELSE IF f.size > getMaxSupportedSize
           THEN Goto(t, "fallback_count", [f EXCEPT !.path = "oversize"])
           ELSE Goto(t, "get_or_create", f)
    /\ UNCHANGED <<pools, poolInitFlags, strategy, totalAllocations,
                   totalDeallocations, fallbackAllocations, heap, held,
                   constructed>>

\* destroy<T> that hands the block back without running the destructor first
DestroyCallSkippingDestructor(t, ptr) ==
    /\ pc[t] = "idle"
    /\ budget > 0
    /\ ptr = NULL \/ \E h \in held[t] : h.addr = ptr
    /\ budget' = budget - 1
    /\ held' = [held EXCEPT ![t] = {h \in @ : h.addr # ptr}]
    /\ LET from == IF ptr = NULL THEN 0
                   ELSE (CHOOSE h \in held[t] : h.addr = ptr).from
           f == [NoFrame EXCEPT !.op = "deallocate", !.ptr = ptr, !.from = from,
                                !.via = "destroy",
                                !.before = IF observe THEN Reading ELSE NoReading]
           pool == findPoolForPointer(ptr)
       IN  IF ptr = NULL
           THEN Return(t, Ended(t, f, ptr, FALSE, "returned"))
           ELSE IF pool # 0
           THEN Goto(t, "pool_deallocate", [f EXCEPT !.pool = pool, !.path = "pool"])
           ELSE Goto(t, "free", [f EXCEPT !.path = "fallback"])
    /\ UNCHANGED <<pools, poolInitFlags, strategy, totalAllocations,
                   totalDeallocations, fallbackAllocations, heap, constructed>>

\* destroy<T>(ptr): nothing for a null pointer, else the destructor is
\* entered; the caller has given the pointer up
DestroyCall(t, ptr) ==
    /\ pc[t] = "idle"
    /\ budget > 0
    /\ ptr = NULL \/ \E h \in held[t] : h.addr = ptr
    /\ budget' = budget - 1
    /\ held' = [held EXCEPT ![t] = {h \in @ : h.addr # ptr}]
    /\ LET from == IF ptr = NULL THEN 0
                   ELSE (CHOOSE h \in held[t] : h.addr = ptr).from
           f == [NoFrame EXCEPT !.op = "deallocate", !.ptr = ptr, !.from = from,
                                !.via = "destroy",
                                !.before = IF observe THEN Reading ELSE NoReading]
       IN  IF ptr = NULL
           THEN Return(t, Ended(t, f, ptr, FALSE, "returned"))
           ELSE Goto(t, "destructor", f)
    /\ UNCHANGED <<pools, poolInitFlags, strategy, totalAllocations,
                   totalDeallocations, fallbackAllocations, heap, constructed>>

\* ptr->~T() has returned and destroy<T> calls deallocate(ptr), which looks
\* for the pool that contains the pointer
DestructorReturn(t) ==
    /\ pc[t] = "destructor"
    /\ LET pool == findPoolForPointer(frame[t].ptr)
       IN  IF pool # 0
           THEN Goto(t, "pool_deallocate",
                     [frame[t] EXCEPT !.pool = pool, !.path = "pool"])
           ELSE Goto(t, "free", [frame[t] EXCEPT !.path = "fallback"])
    /\ UNCHANGED <<pools, poolInitFlags, strategy, totalAllocations,
                   totalDeallocations, fallbackAllocations, heap, held, budget,
                   constructed>>

InitObject == InitWith(MaxObjectCalls, TRUE)

NextObject ==
    \E t \in Threads :
        \/ ConstructCall(t)
        \/ GetOrCreatePool(t)
        \/ InitPoolConstruct(t)
        \/ InitPoolThrow(t)
        \/ StorePool(t)
        \/ InitDone(t)
        \/ PoolAllocate(t)
        \/ PoolAllocated(t)
        \/ CountAlloc(t)
        \/ FallbackCount(t)
        \/ FallbackTotal(t)
        \/ AlignedAlloc(t)
        \/ AlignedAllocFail(t)
        \/ \E ptr \in {h.addr : h \in held[t]} \cup {NULL} : DestroyCall(t, ptr)
        \/ DestructorReturn(t)
        \/ PoolDeallocate(t)
        \/ PoolDeallocated(t)
        \/ CountDealloc(t)
        \/ Free(t)
        \/ CountFreed(t)

SpecObject == InitObject /\ [][NextObject]_vars

----------------------------------------------------------------------------
(* Statistics: getActiveAllocations() beside threads that allocate and
   deallocate what they were given *)

MaxStatsCalls == 3

\* the two operands of getTotalAllocations() - getTotalDeallocations() are
\* evaluated in an order the compiler chooses
LoadOrders == {"allocations_first", "deallocations_first"}

GetActiveAllocationsCall(t, order) ==
    /\ pc[t] = "idle"
    /\ budget > 0
    /\ budget' = budget - 1
    /\ Goto(t, "load_first", [NoFrame EXCEPT !.op = "getActiveAllocations",
                                             !.path = order])
    /\ UNCHANGED <<pools, poolInitFlags, strategy, totalAllocations,
                   totalDeallocations, fallbackAllocations, heap, held,
                   constructed>>

\* the first of the two atomic loads: frame.n keeps totalAllocations.load(),
\* frame.size keeps totalDeallocations.load(), frame.before what the counters
\* were at this load
LoadFirst(t) ==
    /\ pc[t] = "load_first"
    /\ Goto(t, "load_second",
            IF frame[t].path = "allocations_first"
            THEN [frame[t] EXCEPT !.n = totalAllocations, !.before = Reading]
            ELSE [frame[t] EXCEPT !.size = totalDeallocations, !.before = Reading])
    /\ UNCHANGED <<pools, poolInitFlags, strategy, totalAllocations,
                   totalDeallocations, fallbackAllocations, heap, held, budget,
                   constructed>>

\* the second load and the subtraction in size_t
LoadSecond(t) ==
    /\ pc[t] = "load_second"
    /\ LET f == IF frame[t].path = "allocations_first"
                THEN [frame[t] EXCEPT !.size = totalDeallocations]
                ELSE [frame[t] EXCEPT !.n = totalAllocations]
       IN  Return(t, Ended(t, f, size_t(f.n - f.size), FALSE, "returned"))
    /\ UNCHANGED <<pools, poolInitFlags, strategy, totalAllocations,
                   totalDeallocations, fallbackAllocations, heap, held, budget,
                   constructed>>

StatsSizes == {1}

InitStats == InitWith(MaxStatsCalls, FALSE)

NextStats ==
    \E t \in Threads :
        \/ \E size \in StatsSizes, alignment \in Alignments :
               AllocateCall(t, size, alignment)
        \/ GetOrCreatePool(t)
        \/ InitPoolConstruct(t)
        \/ StorePool(t)
        \/ InitDone(t)
        \/ PoolAllocate(t)
        \/ PoolAllocated(t)
        \/ CountAlloc(t)
        \/ FallbackCount(t)
        \/ FallbackTotal(t)
        \/ AlignedAlloc(t)
        \/ \E ptr \in {h.addr : h \in held[t]} : DeallocateCall(t, ptr)
        \/ PoolDeallocate(t)
        \/ PoolDeallocated(t)
        \/ CountDealloc(t)
        \/ Free(t)
        \/ CountFreed(t)
        \/ \E order \in LoadOrders : GetActiveAllocationsCall(t, order)
        \/ LoadFirst(t)
        \/ LoadSecond(t)

SpecStats == InitStats /\ [][NextStats]_vars

----------------------------------------------------------------------------
(* Scans of the pool array: findPoolForPointer and getPoolCount walk over
   every slot without a lock or a call_once, beside threads whose first use
   of a size class writes a slot *)

MaxScanCalls == 3

\* a slot has been written since thread t began its walk over the slots
SlotWrittenUnderScan(t) ==
    \E i \in Slots : (pools[i].id # 0) # frame[t].before.created[i]

\* MemoryManager::deallocate up to the call of findPoolForPointer;
\* frame.before keeps which slots were filled when the walk began
DeallocateScanCall(t, ptr) ==
    /\ pc[t] = "idle"
    /\ budget > 0
    /\ ptr = NULL \/ \E h \in held[t] : h.addr = ptr
    /\ budget' = budget - 1
    /\ held' = [held EXCEPT ![t] = {h \in @ : h.addr # ptr}]
    /\ LET from == IF ptr = NULL THEN 0
                   ELSE (CHOOSE h \in held[t] : h.addr = ptr).from
           f == [NoFrame EXCEPT !.op = "deallocate", !.ptr = ptr, !.from = from,
                                !.before = Reading]
       IN  IF ptr = NULL
           THEN Return(t, Ended(t, f, ptr, FALSE, "returned"))
           ELSE Goto(t, "find_pool", f)
    /\ UNCHANGED <<pools, poolInitFlags, strategy, totalAllocations,
                   totalDeallocations, fallbackAllocations, heap, constructed>>

\* findPoolForPointer has walked over the slots; a walk that met a slot
\* while it was written may also end as in ScanCrash
FindPoolReturn(t) ==
    /\ pc[t] = "find_pool"
    /\ LET pool == findPoolForPointer(frame[t].ptr)
       IN  IF pool # 0
           THEN Goto(t, "pool_deallocate",
                     [frame[t] EXCEPT !.pool = pool, !.path = "pool",
                                      !.raced = SlotWrittenUnderScan(t)])
           ELSE Goto(t, "free", [frame[t] EXCEPT !.path = "fallback",
                                                 !.raced = SlotWrittenUnderScan(t)])
    /\ UNCHANGED <<pools, poolInitFlags, strategy, totalAllocations,
                   totalDeallocations, fallbackAllocations, heap, held, budget,
                   constructed>>

\* getPoolCount begins its walk over the slots
GetPoolCountCall(t) ==
    /\ pc[t] = "idle"
    /\ budget > 0
    /\ budget' = budget - 1
    /\ Goto(t, "count_pools", [NoFrame EXCEPT !.op = "getPoolCount",
                                              !.before = Reading])
    /\ UNCHANGED <<pools, poolInitFlags, strategy, totalAllocations,
                   totalDeallocations, fallbackAllocations, heap, held,
                   constructed>>

\* what a walk can have counted: every slot that was filled when the walk
\* began, and any of the slots filled since (a filled slot stays filled)
CountsSeen(t) ==
    Cardinality({i \in Slots : frame[t].before.created[i]}) .. getPoolCount

GetPoolCountReturn(t) ==
    /\ pc[t] = "count_pools"
    /\ \E count \in CountsSeen(t) :
           Return(t, Ended(t, [frame[t] EXCEPT !.n = count,
                                               !.raced = SlotWrittenUnderScan(t)],
                           FromInt(count), FALSE, "returned"))
    /\ UNCHANGED <<pools, poolInitFlags, strategy, totalAllocations,
                   totalDeallocations, fallbackAllocations, heap, held, budget,
                   constructed>>

\* a walk that read a slot while the initializer wrote it has undefined
\* behaviour: the process may end there
ScanCrash(t) ==
    /\ pc[t] \in {"find_pool", "count_pools"}
    /\ SlotWrittenUnderScan(t)
    /\ pc' = [u \in Threads |-> "crashed"]
    /\ UNCHANGED <<pools, poolInitFlags, strategy, totalAllocations,
                   totalDeallocations, fallbackAllocations, heap, frame, held,
                   budget, constructed, hist, observe, globals, managerMutex>>

InitScan == InitWith(MaxScanCalls, FALSE)

NextScan ==
    \E t \in Threads :
        \/ \E size \in RaceSizes : AllocateCall(t, size, 16)
        \/ GetOrCreatePool(t)
        \/ InitPoolConstruct(t)
        \/ StorePool(t)
        \/ InitDone(t)
        \/ PoolAllocate(t)
        \/ PoolAllocated(t)
        \/ CountAlloc(t)
        \/ FallbackCount(t)
        \/ FallbackTotal(t)
        \/ AlignedAlloc(t)
        \/ \E ptr \in {h.addr : h \in held[t]} \cup {NULL} : DeallocateScanCall(t, ptr)
        \/ FindPoolReturn(t)
        \/ PoolDeallocate(t)
        \/ PoolDeallocated(t)
        \/ CountDealloc(t)
        \/ Free(t)
        \/ CountFreed(t)
        \/ GetPoolCountCall(t)
        \/ GetPoolCountReturn(t)
        \/ ScanCrash(t)

SpecScan == InitScan /\ [][NextScan]_vars

----------------------------------------------------------------------------
(* Properties *)

\* the addresses thread t has from the pool object id: those it holds, the
\* one MemoryPool::allocate has just returned to its call, and the one its
\* call of deallocate has not yet put back
Issued(t, id) ==
    {h.addr : h \in {x \in held[t] : x.from = id}}
      \cup (IF pc[t] = "count_alloc" /\ frame[t].pool = id
            THEN {frame[t].ptr} ELSE {})
      \cup (IF pc[t] \in {"pool_deallocate", "pool_deallocated"} /\ frame[t].from = id
            THEN {frame[t].ptr} ELSE {})

RECURSIVE IssuedUpTo(_, _)
IssuedUpTo(id, n) ==
    IF n = 0 THEN 0 ELSE Cardinality(Issued(n, id)) + IssuedUpTo(id, n - 1)

\* C1: the pointers one pool has handed out and not yet taken back are
\* pairwise distinct: no two threads have the same address from it, and the
\* distinct addresses are as many as the blocks the pool counts as allocated
PoolPointersDistinct ==
    \A i \in Slots :
        pools[i].id # 0 =>
            /\ \A t, u \in Threads :
                   t # u => Issued(t, pools[i].id) \cap Issued(u, pools[i].id) = {}
            /\ IssuedUpTo(pools[i].id, NumThreads) = pools[i].allocatedObjects

\* every thread holds a block of one and the same pool
PoolPointersHeldTogether ==
    \E i \in Slots :
        /\ pools[i].id # 0
        /\ \A t \in Threads : \E h \in held[t] : h.from = pools[i].id

\* C2: however many threads first use a size class together, one MemoryPool
\* is constructed for it, and every call the class's pool serves is served
\* by the pool object stored in the slot
OnePoolPerClass ==
    /\ \A i \in Slots : constructed[i] <= 1
    /\ \A t \in Threads :
           pc[t] \in {"pool_allocate", "pool_allocated", "count_alloc"} =>
               /\ frame[t].pool # 0
               /\ frame[t].pool = pools[frame[t].index].id
    /\ \A k \in 1..Len(hist) :
           hist[k].op = "allocate" /\ hist[k].pool # 0 =>
               hist[k].pool = pools[getPoolIndex(hist[k].size)].id

\* no call has ended, and every thread's first allocate has reached the one
\* pool constructed for the class they all ask for
FirstUseTogether ==
    /\ hist = <<>>
    /\ \E i \in Slots :
           /\ constructed[i] = 1
           /\ \A t \in Threads : pc[t] = "pool_allocate" /\ frame[t].index = i

\* the power of two 2^k as a 64-bit value
Pow2(k) == IF k < 30 THEN U64(0, 2^k) ELSE U64(2^(k - 30), 0)

\* the exponent of the smallest power of two that is >= n
RECURSIVE Log2Ceil(_)
Log2Ceil(n) == IF n <= 1 THEN 0 ELSE 1 + Log2Ceil((n + 1) \div 2)

\* C3: a request of S bytes, 1 <= S <= 2^20, that a pool serves is served by
\* the pool whose object size is the smallest power of two >= S, and that
\* pool is in slot log2 of its object size
ServedBySmallestPowerOf2 ==
    \A t \in Threads : \A h \in held[t] :
        h.from # 0 /\ h.size \in 1..getMaxSupportedSize =>
            /\ pools[SlotOf(h.from)].objectSize = Pow2(Log2Ceil(h.size))
            /\ SlotOf(h.from) = Log2Ceil(h.size)

\* C4: getSizeCategory(n) is the smallest power of two >= n, and 1 for 0
SizeCategoryIsSmallestPowerOf2 ==
    \A k \in 1..Len(hist) :
        hist[k].op = "getSizeCategory" =>
            hist[k].val = Pow2(Log2Ceil(hist[k].size))

\* no call is in progress
Quiet == \A t \in Threads : pc[t] = "idle"

\* the statistics right after the k-th ended call of a single caller: what it
\* read before its next call, or what it would read now
After(k) == IF k < Len(hist) THEN hist[k + 1].before ELSE Reading

\* the first n ended calls are allocations of one size class, none of which
\* the general allocator let down
SameClassAllocations(n) ==
    \A k \in 1..n :
        /\ hist[k].op = "allocate"
        /\ hist[k].how = "returned"
        /\ hist[k].size \in 1..getMaxSupportedSize
        /\ Log2Ceil(hist[k].size) = Log2Ceil(hist[1].size)

\* the pool of the class the first ended call asked for
FirstClassPool == pools[getPoolIndex(hist[1].size)]

\* C5: on a fresh manager the first objectCount allocations of one size
\* class come from the class's pool and leave fallbackAllocations at 0; the
\* next one adds exactly 1 to fallbackAllocations and returns a non-null
\* pointer
FirstObjectCountFromPool ==
    (Quiet /\ observe /\ Len(hist) >= 1 /\ SameClassAllocations(Len(hist))) =>
        \A k \in 1..Len(hist) :
            /\ k <= FirstClassPool.objectCount =>
                   /\ hist[k].path = "pool"
                   /\ hist[k].pool = FirstClassPool.id
                   /\ hist[k].val # NULL
                   /\ After(k).fallbackAllocations = 0
            /\ k = FirstClassPool.objectCount + 1 =>
                   /\ hist[k].path = "exhausted"
                   /\ hist[k].val # NULL
                   /\ hist[k].before.fallbackAllocations = 0
                   /\ After(k).fallbackAllocations = 1

\* a fresh manager has served objectCount + 1 allocations of one class
PoolJustExhausted ==
    /\ Quiet /\ observe /\ Len(hist) >= 2
    /\ SameClassAllocations(Len(hist))
    /\ Len(hist) = FirstClassPool.objectCount + 1
    /\ hist[Len(hist)].path = "exhausted"

\* n allocations of one class, then only deallocations of what they returned
AllocationsThenDeallocations(n) ==
    /\ SameClassAllocations(n)
    /\ \A k \in (n + 1)..Len(hist) :
           hist[k].op = "deallocate" /\ hist[k].val # NULL

\* C6: N allocations of one size class on a fresh manager, with no
\* deallocation in between, return N non-null pointers and count
\* N - objectCount fallback allocations (none for N <= objectCount); once all
\* N are deallocated, getActiveAllocations() is 0
ExhaustionCountsFallbacks ==
    \A n \in 1..Len(hist) :
        (Quiet /\ AllocationsThenDeallocations(n)) =>
            /\ \A k \in 1..n : hist[k].val # NULL
            /\ fallbackAllocations =
                   IF n > FirstClassPool.objectCount
                   THEN n - FirstClassPool.objectCount ELSE 0
            /\ Len(hist) = 2 * n => getActiveAllocations = 0

\* more allocations of one class than its pool has blocks, all given back
ExhaustedAndAllGivenBack ==
    \E n \in 1..Len(hist) :
        /\ Quiet /\ AllocationsThenDeallocations(n)
        /\ n > FirstClassPool.objectCount
        /\ Len(hist) = 2 * n

\* C7: on a fresh manager whose pools have room for two blocks or more,
\* allocations of 10, 10 and 2000 bytes create the pools of object sizes 16
\* and 2048 and no other (getPoolCount() = 2), count no fallback allocation,
\* and leave getActiveAllocations() at 3
TwoPoolsForThreeAllocations ==
    (/\ Quiet /\ Len(hist) = 3 /\ strategy >= 2
     /\ \A k \in 1..3 : hist[k].op = "allocate" /\ hist[k].how = "returned"
     /\ hist[1].size = 10 /\ hist[2].size = 10 /\ hist[3].size = 2000) =>
        /\ getPoolCount = 2
        /\ pools[4].id # 0 /\ pools[4].objectSize = FromInt(16)
        /\ pools[11].id # 0 /\ pools[11].objectSize = FromInt(2048)
        /\ fallbackAllocations = 0
        /\ getActiveAllocations = 3

\* the ended calls a..(a + 2n - 1) are n rounds of "allocate a block of one
\* size, then deallocate what allocate returned"; sizes is the set the size
\* is taken from
AllocateDeallocateRounds(a, n, sizes) ==
    /\ a + 2 * n - 1 <= Len(hist)
    /\ \A j \in 0..(n - 1) :
           /\ hist[a + 2 * j].op = "allocate"
           /\ hist[a + 2 * j].how = "returned"
           /\ hist[a + 2 * j].size \in sizes
           /\ hist[a + 2 * j].size = hist[a].size
           /\ hist[a + 2 * j + 1].op = "deallocate"
           /\ hist[a + 2 * j + 1].val = hist[a + 2 * j].val

\* between the readings b and c every pool's occupancy is the same (a pool
\* created in between has every block free), and both totals grew by n
SameOccupancy(b, c, n) ==
    /\ c.totalAllocations = b.totalAllocations + n
    /\ c.totalDeallocations = b.totalDeallocations + n
    /\ \A i \in Slots :
           /\ c.allocated[i] = b.allocated[i]
           /\ b.created[i] => c.available[i] = b.available[i]
           /\ c.created[i] /\ ~b.created[i] =>
                  c.available[i] = pools[i].objectCount

RoundsKeepOccupancy(sizes) ==
    \A a \in 1..Len(hist) : \A n \in 1..Len(hist) :
        (/\ observe
         /\ AllocateDeallocateRounds(a, n, sizes)
         /\ a + 2 * n - 1 = Len(hist) => Quiet) =>
            SameOccupancy(hist[a].before, After(a + 2 * n - 1), n)

Owners(ptr) ==
    {i \in Slots : pools[i].id # 0 /\ containsPointer(pools[i], ptr)}

\* the arenas of two pools have no address in common
ArenasApart(p, q) ==
    \/ ULe(UAdd(p.memory, p.poolSize), q.memory)
    \/ ULe(UAdd(q.memory, q.poolSize), p.memory)

\* C9: no address is in the arenas of two pools; a pointer the fallback path
\* returned is in no pool's arena and findPoolForPointer finds no pool for
\* it; a pointer a pool issued is in that pool's arena only and
\* findPoolForPointer finds that pool
PointersPartitioned ==
    /\ \A i, j \in Slots :
           (i # j /\ pools[i].id # 0 /\ pools[j].id # 0) =>
               ArenasApart(pools[i], pools[j])
    /\ \A t \in Threads : \A h \in held[t] :
           IF h.from = 0
           THEN Owners(h.addr) = {} /\ findPoolForPointer(h.addr) = 0
           ELSE /\ Owners(h.addr) = {SlotOf(h.from)}
                /\ findPoolForPointer(h.addr) = h.from

\* two pools exist, and a pointer of a pool and a pointer of the fallback
\* path are held
PoolAndFallbackPointersHeld ==
    /\ getPoolCount >= 2
    /\ \E t \in Threads : \E h \in held[t] : h.from # 0
    /\ \E t \in Threads : \E h \in held[t] : h.from = 0

\* the frame of the call thread t is in or is entering with this step
Entered(t) == IF pc[t] = "idle" THEN frame'[t] ELSE frame[t]

\* a step of deallocate, called by t with a non-null pointer of the fallback
\* path: it stays on the fallback branch and touches no pool; its std::free
\* takes the block from the general allocator's live blocks; its return is
\* true and comes with the one increment of totalDeallocations
FallbackDeallocateStep(t) ==
    (/\ pc'[t] # pc[t]
     /\ Entered(t).op = "deallocate"
     /\ Entered(t).from = 0
     /\ Entered(t).ptr # NULL) =>
        /\ pools' = pools
        /\ pc'[t] \in {"free", "count_freed", "idle"}
        /\ pc[t] = "free" =>
               /\ \E b \in heap : b.base = frame[t].ptr
               /\ heap' = {b \in heap : b.base # frame[t].ptr}
        /\ IF pc'[t] = "idle"
           THEN /\ totalDeallocations' = totalDeallocations + 1
                /\ hist'[Len(hist')].ok
           ELSE totalDeallocations' = totalDeallocations

\* C10: deallocate of a pointer the fallback path returned (oversize request
\* or exhausted pool) returns true, releases the block through the general
\* allocator, adds 1 to totalDeallocations, and changes no pool's free list
\* or counters
FallbackDeallocateRouted ==
    [][\A t \in Threads : FallbackDeallocateStep(t)]_vars

\* a pointer the exhausted path returned has been deallocated
FallbackPointersDeallocated ==
    \E j, k \in 1..Len(hist) :
        /\ hist[j].op = "allocate" /\ hist[j].path = "exhausted"
        /\ hist[k].op = "deallocate" /\ hist[k].from = 0 /\ hist[k].ok
        /\ hist[k].val = hist[j].val /\ hist[k].val # NULL /\ j < k

\* a step of allocate, called by t with a size above getMaxSupportedSize():
\* it goes the fallback way only, adds 1 to fallbackAllocations and then 1 to
\* totalAllocations, creates no pool and touches none, and returns what
\* std::aligned_alloc gave it
OversizeAllocateStep(t) ==
    (/\ pc'[t] # pc[t]
     /\ Entered(t).op = "allocate"
     /\ Entered(t).size > getMaxSupportedSize) =>
        /\ pools' = pools /\ poolInitFlags' = poolInitFlags
        /\ constructed' = constructed
        /\ totalDeallocations' = totalDeallocations
        /\ pc[t] \in {"idle", "fallback_count", "fallback_total", "aligned_alloc"}
        /\ pc[t] = "idle" => pc'[t] = "fallback_count"
        /\ fallbackAllocations' =
               fallbackAllocations + IF pc[t] = "fallback_count" THEN 1 ELSE 0
        /\ totalAllocations' =
               totalAllocations + IF pc[t] = "fallback_total" THEN 1 ELSE 0
        /\ pc[t] = "aligned_alloc" =>
               /\ pc'[t] = "idle"
               /\ hist'[Len(hist')].path = "oversize"
               /\ \/ hist'[Len(hist')].val = NULL /\ heap' = heap
                  \/ /\ hist'[Len(hist')].val # NULL
                     /\ heap' = heap \cup {[base |-> hist'[Len(hist')].val,
                                            size |-> FromInt(frame[t].size)]}
                     /\ heap' # heap

\* a step of allocate, called by t with exactly getMaxSupportedSize() bytes:
\* it goes to getOrCreatePool, and to the last slot
MaxSizeAllocateStep(t) ==
    (/\ pc'[t] # pc[t]
     /\ pc[t] \in {"idle", "get_or_create"}
     /\ Entered(t).op = "allocate"
     /\ Entered(t).size = getMaxSupportedSize) =>
        /\ pc[t] = "idle" => pc'[t] = "get_or_create"
        /\ pc[t] = "get_or_create" /\ pc'[t] # "idle" =>
               frame'[t].index = MAX_POOLS - 1

\* C11: a request above getMaxSupportedSize() (2^20) is served by the general
\* allocator, adds 1 to fallbackAllocations and 1 to totalAllocations, and
\* creates and touches no pool; a request of exactly 2^20 bytes goes to the
\* pool of the last slot and never takes the oversize path
OversizeToFallbackOnly ==
    /\ [][\A t \in Threads : OversizeAllocateStep(t) /\ MaxSizeAllocateStep(t)]_vars
    /\ [](\A k \in 1..Len(hist) :
            (hist[k].op = "allocate" /\ hist[k].size = getMaxSupportedSize) =>
                /\ hist[k].path # "oversize"
                /\ hist[k].path = "pool" =>
                       hist[k].pool = pools[MAX_POOLS - 1].id)

\* a request above 2^20 got a block of the general allocator while a pool
\* existed, and a request of exactly 2^20 bytes got a block of a pool
OversizeAndMaxSizeServed ==
    \E j, k \in 1..Len(hist) :
        /\ hist[j].op = "allocate" /\ hist[j].size = getMaxSupportedSize
        /\ hist[j].path = "pool" /\ hist[j].val # NULL
        /\ hist[k].op = "allocate" /\ hist[k].size > getMaxSupportedSize
        /\ hist[k].val # NULL /\ j < k

\* the call that ends with this step, if one does
EndsCall == Len(hist') = Len(hist) + 1

\* C12: allocate(0) returns nullptr and does nothing else: the whole call is
\* one step that creates no pool and changes none of totalAllocations,
\* totalDeallocations and fallbackAllocations, nor any pool or the heap
ZeroSizeAllocateIsNoOp ==
    /\ [](\A t \in Threads : ~(frame[t].op = "allocate" /\ frame[t].size = 0))
    /\ [][(/\ EndsCall
           /\ hist'[Len(hist')].op = "allocate"
           /\ hist'[Len(hist')].size = 0) =>
              /\ hist'[Len(hist')].val = NULL
              /\ hist'[Len(hist')].how = "returned"
              /\ pc[hist'[Len(hist')].t] = "idle"
              /\ UNCHANGED <<pools, poolInitFlags, constructed, totalAllocations,
                             totalDeallocations, fallbackAllocations, heap, held>>]_vars

\* allocate(0) has been called on a manager that has a pool and has counted
\* an allocation
ZeroSizeAllocateOnUsedManager ==
    \E k \in 2..Len(hist) :
        /\ hist[k].op = "allocate" /\ hist[k].size = 0
        /\ getPoolCount >= 1 /\ totalAllocations >= 1
        /\ hist[1].op = "allocate" /\ hist[1].path = "pool"

\* C13: when the general allocator fails on a fallback request (oversize or
\* exhausted pool), allocate returns nullptr; a non-null pointer allocate
\* returned is a block of the pool that issued it or a live block the general
\* allocator handed out for that size
FallbackFailureReturnsNull ==
    /\ \A k \in 1..Len(hist) :
           /\ hist[k].how = "no_memory" =>
                  /\ hist[k].op = "allocate"
                  /\ hist[k].path \in {"oversize", "exhausted"}
                  /\ hist[k].val = NULL
           /\ (hist[k].op = "allocate" /\ hist[k].val # NULL) =>
                  /\ hist[k].how = "returned"
                  /\ hist[k].path \in {"pool", "oversize", "exhausted"}
    /\ \A t \in Threads : \A h \in held[t] :
           /\ h.addr # NULL
           /\ h.from = 0 =>
                  \E b \in heap : b.base = h.addr /\ b.size = FromInt(h.size)
           /\ h.from # 0 =>
                  \E i \in Slots : /\ pools[i].id = h.from
                                   /\ h.addr \in BlockBases(pools[i])

\* the general allocator has failed a request of the exhausted path and one
\* of the oversize path
BothFallbackPathsFailed ==
    \E j, k \in 1..Len(hist) :
        /\ hist[j].how = "no_memory" /\ hist[j].path = "exhausted"
        /\ hist[k].how = "no_memory" /\ hist[k].path = "oversize"

\* C14: every allocation failure reaches the caller of allocate as a null
\* result and never as an exception: every call of allocate that has ended
\* has returned, and one that could not get the arena of its pool has
\* returned nullptr
AllocateAlwaysReturns ==
    \A k \in 1..Len(hist) :
        hist[k].op = "allocate" => hist[k].how \in {"returned", "no_memory"}

\* C15: under fair scheduling every call of allocate returns, also when its
\* pool is exhausted and no thread deallocates: allocate does not wait for a
\* block to be given back
AllocateReturns ==
    \A t \in Threads : (frame[t].op = "allocate") ~> (pc[t] = "idle")

\* allocate has returned from an exhausted pool and deallocate has never
\* been called
ReturnedFromExhaustedPool ==
    /\ \E k \in 1..Len(hist) : hist[k].op = "allocate" /\ hist[k].path = "exhausted"
    /\ \A k \in 1..Len(hist) : hist[k].op # "deallocate"
    /\ \A t \in Threads : frame[t].op # "deallocate"

\* a step of MemoryPool::deallocate, run by t: a pointer that is no block
\* base of the pool (null, outside the arena, or inside it off a multiple of
\* objectSize) makes it return false with the pool as it was; a block base
\* is pushed onto the free list, and the call returns true
PoolDeallocateStep(t) ==
    LET i == SlotOf(frame[t].pool)
        ptr == frame[t].ptr
    IN  /\ (pc[t] = "pool_deallocate" /\ pc'[t] # pc[t]) =>
               IF ptr \in BlockBases(pools[i])
               THEN /\ pc'[t] = "pool_deallocated"
                    /\ pools' = [pools EXCEPT ![i].poolMutex = t]
               ELSE /\ pc'[t] = "idle" /\ EndsCall
                    /\ ~hist'[Len(hist')].ok
                    /\ pools' = pools
        /\ (pc[t] = "pool_deallocated" /\ pc'[t] # pc[t]) =>
               /\ ptr \in BlockBases(pools[i])
               /\ pools'[i].freeList = Append(pools[i].freeList, ptr)
               /\ pools'[i].poolMutex = 0
               /\ \A j \in Slots : j # i => pools'[j] = pools[j]
               /\ frame[t].op = "pool_deallocate" =>
                      EndsCall /\ hist'[Len(hist')].ok

\* C16: MemoryPool::deallocate(p) returns false and leaves the free list and
\* the pool's counters unchanged when p is null, outside the arena, or inside
\* it but not at a multiple of objectSize from its start; otherwise it pushes
\* p onto the free list and returns true
PoolDeallocateRejectsNonBlocks ==
    [][\A t \in Threads : PoolDeallocateStep(t)]_vars

\* a pool has refused a pointer inside its arena off the block boundaries
\* and has taken back a block base
PoolRefusedAndTookBack ==
    \E j, k \in 1..Len(hist) :
        /\ hist[j].op = "pool_deallocate" /\ ~hist[j].ok
        /\ containsPointer(pools[SlotOf(hist[j].pool)], hist[j].val)
        /\ hist[k].op = "pool_deallocate" /\ hist[k].ok

\* the setStrategy calls that have ended
StrategyCalls == {k \in 1..Len(hist) : hist[k].op = "setStrategy"}

\* the count the strategy passed to the latest setStrategy answers
LatestStrategy ==
    hist[CHOOSE k \in StrategyCalls : \A j \in StrategyCalls : j <= k].size

\* C17: setStrategy changes no pool that exists: every pool keeps its
\* objectSize, objectCount, arena and free list through the call, and keeps
\* its dimensions ever after; a pool constructed after a setStrategy gets its
\* objectCount from the strategy passed to the latest one
SetStrategyForLaterPoolsOnly ==
    [][/\ (EndsCall /\ hist'[Len(hist')].op = "setStrategy") =>
              /\ pools' = pools
              /\ poolInitFlags' = poolInitFlags
              /\ heap' = heap
       /\ \A i \in Slots : pools[i].id # 0 =>
              /\ pools'[i].id = pools[i].id
              /\ pools'[i].objectSize = pools[i].objectSize
              /\ pools'[i].objectCount = pools[i].objectCount
              /\ pools'[i].memory = pools[i].memory
              /\ pools'[i].poolSize = pools[i].poolSize
       /\ \A t \in Threads :
              (pc[t] = "init_pool" /\ pc'[t] = "store_pool" /\ StrategyCalls # {}) =>
                  frame'[t].newPool.objectCount = LatestStrategy]_vars

\* a pool was created, setStrategy was called with another count, and a pool
\* created after it has that other count while the first has kept its own
PoolsBeforeAndAfterSetStrategy ==
    \E i, j \in Slots :
        /\ pools[i].id # 0 /\ pools[j].id # 0
        /\ pools[i].id < pools[j].id
        /\ pools[i].objectCount # pools[j].objectCount
        /\ StrategyCalls # {}
        /\ pools[j].objectCount = LatestStrategy

\* the setGlobalManager calls that ended before the k-th ended call
SetCallsBefore(k) == {j \in 1..(k - 1) : hist[j].op = "setGlobalManager"}

\* the manager passed to the latest of them, 0 if there is none
LatestGlobalManager(k) ==
    IF SetCallsBefore(k) = {} THEN 0
    ELSE hist[CHOOSE j \in SetCallsBefore(k) : \A i \in SetCallsBefore(k) : i <= j].mgr

\* C18: getGlobalManager returns the manager passed to the latest
\* setGlobalManager when that was non-null; when none was set, or nullptr was
\* set last, it returns the default manager, which is constructed by the
\* first getGlobalManager call and is the same object for every later call
\* of any thread
GlobalManagerIsLatestSetOrDefault ==
    /\ \A k \in 1..Len(hist) : hist[k].op = "getGlobalManager" =>
           hist[k].mgr = IF LatestGlobalManager(k) # 0 THEN LatestGlobalManager(k)
                         ELSE DefaultManager(1)
    /\ defaultManager <= 1
    /\ defaultManager = 1 <=>
           \/ \E k \in 1..Len(hist) : hist[k].op = "getGlobalManager"
           \/ \E t \in Threads : frame[t].op = "getGlobalManager"

\* a call got the manager a caller had set, and a call of the other thread
\* got the default manager after nullptr was set over it
SetManagerThenDefaultReturned ==
    \E j, k \in 1..Len(hist) :
        /\ j < k
        /\ hist[j].op = "getGlobalManager" /\ hist[j].mgr \in 1..NumManagers
        /\ hist[k].op = "getGlobalManager" /\ hist[k].mgr = DefaultManager(1)
        /\ hist[j].t # hist[k].t

\* the ended calls of MemoryManagerAllocator<T>::allocate
AllocatorCalls ==
    {k \in 1..Len(hist) : hist[k].op = "allocate" /\ hist[k].via = "allocator"}

\* the statistics right after the k-th ended call of a single caller, also
\* while its next call is under way
AfterCall(k) ==
    IF k = Len(hist) /\ pc[hist[k].t] # "idle" THEN frame[hist[k].t].before
    ELSE After(k)

\* C19: MemoryManagerAllocator<T>::allocate(n) never returns a null pointer:
\* it makes one call of manager->allocate with n * sizeof(T) bytes, and
\* either returns the non-null pointer that call returned or ends with
\* std::bad_alloc when the manager returned nullptr
AllocatorNeverReturnsNull ==
    \A k \in AllocatorCalls :
        /\ hist[k].size = hist[k].n * sizeofT
        /\ AfterCall(k).totalAllocations - hist[k].before.totalAllocations \in {0, 1}
        /\ hist[k].out = "value" => hist[k].val # NULL /\ hist[k].how = "returned"
        /\ hist[k].val = NULL => hist[k].out = "bad_alloc"

\* the allocator has returned a pointer, has thrown for a request the
\* general allocator refused, and has thrown for zero elements
AllocatorReturnedAndThrew ==
    \E i, j, k \in AllocatorCalls :
        /\ hist[i].out = "value"
        /\ hist[j].out = "bad_alloc" /\ hist[j].how = "no_memory"
        /\ hist[k].out = "bad_alloc" /\ hist[k].n = 0

\* the non-null pointers issued to the callers and not yet deallocated
PointersOutstanding ==
    SumUpTo([t \in 0..NumThreads |-> IF t = 0 THEN 0 ELSE Cardinality(held[t])],
            NumThreads)

\* C20: whenever no call is under way, getActiveAllocations() equals
\* totalAllocations - totalDeallocations and the number of non-null pointers
\* issued and not yet deallocated
ActiveAllocationsCountPointers ==
    Quiet => /\ getActiveAllocations = totalAllocations - totalDeallocations
             /\ getActiveAllocations = PointersOutstanding

\* the pool object id was handed, and took, a block that no caller held:
\* a deallocate of a block base the caller had not got from that pool, or
\* had given back already
GivenBackUnissued(id) ==
    \/ \E k \in 1..Len(hist) :
           /\ hist[k].op \in {"pool_deallocate", "deallocate"} /\ hist[k].ok
           /\ hist[k].pool = id /\ hist[k].from # id
    \/ \E t \in Threads :
           /\ pc[t] = "count_dealloc"
           /\ frame[t].pool = id /\ frame[t].from # id

\* every entry of the free list is a block base of the pool
FreeListOfBlockBases(pool) ==
    \A j \in 1..Len(pool.freeList) : pool.freeList[j] \in BlockBases(pool)

\* no address is in the free list twice
FreeListDistinct(pool) ==
    \A j, k \in 1..Len(pool.freeList) :
        j # k => pool.freeList[j] # pool.freeList[k]

\* C21 as stated: after any sequence of MemoryPool::allocate and
\* MemoryPool::deallocate calls every entry of the free list lies in the
\* arena at a multiple of objectSize and no address is in it twice
FreeListAlwaysDistinct ==
    \A i \in Slots : pools[i].id # 0 =>
        FreeListOfBlockBases(pools[i]) /\ FreeListDistinct(pools[i])

\* C21, amended: every entry of the free list is a block base of the pool
\* after any sequence of calls; no address is in it twice as long as the
\* pool was not handed a block that no caller held
FreeListDistinctUnlessUnissuedGivenBack ==
    \A i \in Slots : pools[i].id # 0 =>
        /\ FreeListOfBlockBases(pools[i])
        /\ ~GivenBackUnissued(pools[i].id) => FreeListDistinct(pools[i])

\* a pool of more than one block has all its blocks back on the free list
\* after blocks were taken from it and given back, through the manager and
\* to the pool itself, and it has refused a pointer
FreeListFullAgain ==
    \E i \in Slots :
        /\ pools[i].id # 0 /\ ~GivenBackUnissued(pools[i].id)
        /\ Len(pools[i].freeList) = pools[i].objectCount
        /\ pools[i].totalDeallocations > 0
        /\ \E k \in 1..Len(hist) :
               hist[k].op = "pool_deallocate" /\ hist[k].pool = pools[i].id

\* allocated + free == objectCount, the allocated count taken as the number
\* getAllocatedObjects() returns
OccupancyAddsUp(pool) ==
    LET allocated == getAllocatedObjects(pool)
    IN  /\ allocated[1] = 0 /\ allocated[2] = 0
        /\ allocated[3] * SizeLimb + allocated[4] + getAvailableObjects(pool)
               = pool.objectCount

\* the pool a constructor has just built holds every block base once on its
\* free list and counts no allocated block
FreshPoolIsFull ==
    \A t \in Threads : pc[t] = "store_pool" =>
        LET pool == frame[t].newPool
        IN  /\ Len(pool.freeList) = pool.objectCount
            /\ {pool.freeList[j] : j \in 1..Len(pool.freeList)} = BlockBases(pool)
            /\ Cardinality(BlockBases(pool)) = pool.objectCount
            /\ getAllocatedObjects(pool) = size_t(0)

\* C22 as stated: in every state in which no thread holds the pool's lock
\* allocated + free == objectCount, and a pool is constructed with the
\* objectCount block bases on its free list and allocated 0
OccupancyAlwaysAddsUp ==
    /\ \A i \in Slots : (pools[i].id # 0 /\ pools[i].poolMutex = 0) =>
           OccupancyAddsUp(pools[i])
    /\ FreshPoolIsFull

\* C22, amended: a pool is constructed with the objectCount block bases on
\* its free list and allocated 0; whenever no thread holds its lock, the
\* allocated counter equals objectCount - freeList.size() in size_t
\* arithmetic, and allocated + free == objectCount as long as the pool was
\* not handed a block that no caller held
OccupancyAddsUpUnlessUnissuedGivenBack ==
    /\ \A i \in Slots : (pools[i].id # 0 /\ pools[i].poolMutex = 0) =>
           /\ getAllocatedObjects(pools[i])
                  = size_t(pools[i].objectCount - getAvailableObjects(pools[i]))
           /\ ~GivenBackUnissued(pools[i].id) => OccupancyAddsUp(pools[i])
    /\ FreshPoolIsFull

\* a pool, used as meant, has blocks allocated and blocks free at once, after
\* a block was given back to it
PoolPartlyAllocated ==
    \E i \in Slots :
        /\ pools[i].id # 0 /\ pools[i].poolMutex = 0
        /\ ~GivenBackUnissued(pools[i].id)
        /\ pools[i].allocatedObjects > 0
        /\ pools[i].freeList # <<>>
        /\ pools[i].totalDeallocations > 0

\* how often the address p is on the list
RECURSIVE Occurrences(_, _)
Occurrences(list, p) ==
    IF list = <<>> THEN 0
    ELSE (IF Head(list) = p THEN 1 ELSE 0) + Occurrences(Tail(list), p)

\* the steps of thread t inside MemoryPool::deallocate and
\* MemoryPool::allocate, for a block base that is on the free list
DoubleFreeStep(t) ==
    LET i == SlotOf(frame[t].pool)
        ptr == frame[t].ptr
    IN  /\ (/\ pc[t] = "pool_deallocate" /\ pc'[t] # pc[t]
            /\ ptr \in BlockBases(pools[i])
            /\ Occurrences(pools[i].freeList, ptr) > 0) =>
               pc'[t] = "pool_deallocated"
        /\ (/\ pc[t] = "pool_deallocated" /\ pc'[t] # pc[t]
            /\ frame[t].op = "pool_deallocate") =>
               /\ Occurrences(pools'[i].freeList, ptr)
                      = Occurrences(pools[i].freeList, ptr) + 1
               /\ EndsCall /\ hist'[Len(hist')].ok
        /\ (pc[t] = "pool_allocated" /\ pc'[t] # pc[t]) =>
               /\ ptr = pools[i].freeList[Len(pools[i].freeList)]
               /\ pools'[i].freeList
                      = SubSeq(pools[i].freeList, 1, Len(pools[i].freeList) - 1)
               /\ frame'[t].ptr = ptr

\* C23: MemoryPool::deallocate has no guard against a double free: given a
\* block base that is on the free list already it goes on, pushes a second
\* entry for the address and returns true; MemoryPool::allocate hands out the
\* last entry of the free list and removes that one entry only, so an address
\* entered twice is returned by two later allocate calls
DoubleFreeAccepted ==
    [][\A t \in Threads : DoubleFreeStep(t)]_vars

\* after a double free the two threads hold the same address, each from an
\* allocate call of its own
SameBlockHeldByTwoThreads ==
    /\ \E h1 \in held[1], h2 \in held[2] : h1.addr = h2.addr /\ h1.from # 0
    /\ \E k \in 1..Len(hist) :
           /\ hist[k].op = "pool_deallocate" /\ hist[k].ok
           /\ hist[k].from # hist[k].pool

\* C24: each slot i of the pool array is empty or holds a fully constructed
\* pool whose objectSize is 2^i, whatever request created it, and every
\* block a pool handed out for a request of S bytes has objectSize >= S
SlotHoldsPoolOfItsSizeClass ==
    /\ \A i \in Slots : pools[i].id # 0 =>
           /\ pools[i].objectSize = Pow2(i)
           /\ pools[i].poolSize = UTimes(pools[i].objectSize, pools[i].objectCount)
           /\ Len(pools[i].freeList) + pools[i].allocatedObjects = pools[i].objectCount
                  \/ pools[i].poolMutex # 0
    /\ \A t \in Threads : \A h \in held[t] :
           h.from # 0 => ULe(FromInt(h.size), pools[SlotOf(h.from)].objectSize)

\* the blocks of the pool object id that the callers hold
HeldFrom(id) == UNION {{h \in held[t] : h.from = id} : t \in Threads}

\* C25: a pool in a slot is never grown, replaced, moved or destroyed: the
\* slot's pool identity, arena bounds, objectSize and objectCount stay what
\* they are through every step of allocate, deallocate and setStrategy, the
\* arena stays allocated, and callers that give back only what they hold
\* never hold more than objectCount blocks of the pool
PoolNeverGrownOrReplaced ==
    /\ [][\A i \in Slots : pools[i].id # 0 =>
              /\ pools'[i].id = pools[i].id
              /\ pools'[i].memory = pools[i].memory
              /\ pools'[i].poolSize = pools[i].poolSize
              /\ pools'[i].objectSize = pools[i].objectSize
              /\ pools'[i].objectCount = pools[i].objectCount
              /\ [base |-> pools[i].memory, size |-> pools[i].poolSize] \in heap']_vars
    /\ [](\A i \in Slots : (pools[i].id # 0 /\ ~GivenBackUnissued(pools[i].id)) =>
              Cardinality(HeldFrom(pools[i].id)) <= pools[i].objectCount)

\* a pool ran out of blocks, a request of its class went to the fallback,
\* the strategy was replaced by one with another count, and the caller
\* holds every block of the pool
ExhaustedPoolAfterSetStrategy ==
    \E i \in Slots :
        /\ pools[i].id # 0
        /\ Cardinality(HeldFrom(pools[i].id)) = pools[i].objectCount
        /\ \E k \in 1..Len(hist) : hist[k].path = "exhausted"
        /\ StrategyCalls # {} /\ LatestStrategy # pools[i].objectCount

\* the threads inside the initializer of slot i
Initializers(i) ==
    {t \in Threads : pc[t] \in {"init_pool", "store_pool", "init_done"}
                     /\ frame[t].index = i}

\* a step of thread t in getOrCreatePool: it leaves for pool->allocate()
\* only with the flag finished and the slot holding a pool whose arena is
\* allocated and whose blocks are all on the free list or allocated; it never
\* returns without a pool; it enters the initializer only for a flag that
\* is unset, with no other thread inside
GetOrCreatePoolStep(t) ==
    LET index == getPoolIndex(frame[t].size)
    IN  /\ (pc[t] = "get_or_create" /\ pc'[t] = "pool_allocate") =>
               /\ poolInitFlags[index] = "done"
               /\ Initializers(index) = {}
               /\ pools[index].id # 0
               /\ frame'[t].pool = pools[index].id
               /\ [base |-> pools[index].memory, size |-> pools[index].poolSize] \in heap
               /\ FreeListOfBlockBases(pools[index])
               /\ pools[index].poolMutex = 0 =>
                      Len(pools[index].freeList) + pools[index].allocatedObjects
                          = pools[index].objectCount
        /\ (pc[t] = "get_or_create" /\ pc'[t] # pc[t]) =>
               pc'[t] \in {"pool_allocate", "init_pool"}
        /\ (pc[t] = "get_or_create" /\ pc'[t] = "init_pool") =>
               /\ poolInitFlags[index] = "idle"
               /\ Initializers(index) = {}
               /\ pools[index].id = 0
        /\ (pc[t] = "init_done" /\ pc'[t] # pc[t]) =>
               /\ pc'[t] = "pool_allocate"
               /\ poolInitFlags'[frame[t].index] = "done"
               /\ Len(pools[frame[t].index].freeList) = pools[frame[t].index].objectCount
                      \/ pools[frame[t].index].allocatedObjects > 0

\* C26: during concurrent first use of a size class no caller goes on to
\* pool->allocate() before the one initializer has finished: getOrCreatePool
\* returns only when the slot holds a pool with its arena and its free
\* list, at most one thread is inside the initializer of a slot, and no
\* caller runs the initializer of a slot whose initialization has finished
InitializerFinishedBeforeUse ==
    /\ [][\A t \in Threads : GetOrCreatePoolStep(t)]_vars
    /\ [](\A i \in Slots :
              /\ Cardinality(Initializers(i)) <= 1
              /\ poolInitFlags[i] = "done" => pools[i].id # 0 /\ Initializers(i) = {}
              /\ Initializers(i) # {} => poolInitFlags[i] = "running")

\* a thread is held up in getOrCreatePool: the other thread has stored the
\* pool of the class both are using for the first time, and std::call_once
\* has not returned yet
HeldUpBehindInitializer ==
    \E t, u \in Threads :
        /\ pc[t] = "get_or_create" /\ pc[u] = "init_done"
        /\ getPoolIndex(frame[t].size) = frame[u].index
        /\ pools[frame[u].index].id # 0
        /\ hist = <<>>

\* C27: the initializer of a new pool reads the capacity strategy under
\* managerMutex, so that no setStrategy replaces or destroys the strategy
\* object while getOrCreatePool is querying it
StrategyNeverReplacedUnderQuery ==
    \A t \in Threads : ~frame[t].raced

\* the threads between taking the lock of the pool in slot i and the pop or
\* push that ends with its release
InFreeListMutation(i) ==
    {t \in Threads : /\ pc[t] \in {"pool_allocated", "pool_deallocated"}
                     /\ pools[i].id = frame[t].pool}

\* C28: at most one thread at a time is inside the free-list mutation of a
\* pool, and it is the holder of the pool's lock; a thread outside the
\* mutation (returned from it, or not yet in it) holds no pool's lock; a
\* thread about to enter MemoryPool::allocate or deallocate can do so
\* whenever the lock of its own pool is free, whatever locks of other pools
\* are held
FreeListMutationExclusive ==
    /\ \A i \in Slots : pools[i].id # 0 =>
           /\ Cardinality(InFreeListMutation(i)) <= 1
           /\ \A t \in Threads : pools[i].poolMutex = t <=> t \in InFreeListMutation(i)
           /\ pools[i].poolMutex \in {0} \cup Threads
    /\ \A t \in Threads :
           /\ (pc[t] = "pool_allocate" /\ pools[SlotOf(frame[t].pool)].poolMutex = 0)
                  => ENABLED PoolAllocate(t)
           /\ (pc[t] = "pool_deallocate" /\ pools[SlotOf(frame[t].pool)].poolMutex = 0)
                  => ENABLED PoolDeallocate(t)

\* two threads are inside the free-list mutations of two pools at once
TwoPoolsMutatedAtOnce ==
    \E i, j \in Slots :
        /\ i # j /\ pools[i].id # 0 /\ pools[j].id # 0
        /\ InFreeListMutation(i) # {} /\ InFreeListMutation(j) # {}

\* addresses to ask a pool about: those of PointerCases and every pointer
\* a caller holds
ProbeAddresses(pool) ==
    PointerCases(pool) \cup UNION {{h.addr : h \in held[t]} : t \in Threads}

\* C29: MemoryPool::containsPointer takes no lock: the entry of deallocate,
\* which asks every pool, can be taken while other threads hold pool locks,
\* and it leaves every pool as it is; the answer of a pool for an address is
\* the same before and after every step, whatever happens to its free list
ContainsPointerLockFreeAndStable ==
    /\ [][/\ \A i \in Slots : pools[i].id # 0 =>
                 \A p \in ProbeAddresses(pools[i]) :
                     containsPointer(pools'[i], p) = containsPointer(pools[i], p)
          /\ \A t \in Threads :
                 (pc[t] = "idle" /\ pc'[t] \in {"pool_deallocate", "free"}) =>
                     /\ pools' = pools
                     /\ frame'[t].pool = findPoolForPointer(frame'[t].ptr)]_vars
    /\ [](\A t \in Threads :
              (pc[t] = "idle" /\ budget > 0) =>
                  \A h \in held[t] : ENABLED DeallocateCall(t, h.addr))

\* a thread is inside the free-list mutation of a pool, holding its lock,
\* and the other thread can enter deallocate with a block of that pool,
\* which containsPointer of the pool recognizes
ContainsPointerBesideLockHolder ==
    \E i \in Slots, t \in Threads :
        /\ pools[i].id # 0
        /\ InFreeListMutation(i) # {} /\ t \notin InFreeListMutation(i)
        /\ pools[i].poolMutex # 0
        /\ \E h \in held[t] :
               /\ h.from = pools[i].id
               /\ containsPointer(pools[i], h.addr)
               /\ ENABLED DeallocateCall(t, h.addr)

\* the manager's counters, the pools and the general allocator's blocks
\* stay as they are
NothingReleased ==
    UNCHANGED <<pools, totalAllocations, totalDeallocations, fallbackAllocations,
                heap>>

\* a step of thread t in MemoryManager::deallocate
ManagerDeallocateStep(t) ==
    /\ (pc[t] = "idle" /\ pc'[t] \in {"pool_deallocate", "free"}) => NothingReleased
    /\ (pc[t] = "pool_deallocate" /\ frame[t].op = "deallocate" /\ pc'[t] # pc[t]) =>
           IF frame[t].ptr \in BlockBases(pools[SlotOf(frame[t].pool)])
           THEN pc'[t] = "pool_deallocated" /\ UNCHANGED totalDeallocations
           ELSE /\ EndsCall /\ ~hist'[Len(hist')].ok
                /\ NothingReleased
    /\ (pc[t] # "free" /\ pc'[t] = "free") =>
           findPoolForPointer(frame'[t].ptr) = 0

\* C30: MemoryManager::deallocate increments totalDeallocations only when it
\* returns true; for a null pointer and for a pointer inside a pool's arena
\* off the block boundaries it returns false, no step of the call changes a
\* counter, a pool or a block of the general allocator, and the pointer is
\* not handed to std::free
DeallocateCountsSuccessOnly ==
    [][/\ \A t \in Threads : ManagerDeallocateStep(t)
       /\ totalDeallocations' # totalDeallocations =>
              /\ totalDeallocations' = totalDeallocations + 1
              /\ EndsCall
              /\ hist'[Len(hist')].op = "deallocate" /\ hist'[Len(hist')].ok
       /\ (EndsCall /\ hist'[Len(hist')].op = "deallocate") =>
              IF hist'[Len(hist')].ok
              THEN totalDeallocations' = totalDeallocations + 1
              ELSE /\ NothingReleased
                   /\ \/ hist'[Len(hist')].val = NULL
                      \/ /\ hist'[Len(hist')].pool # 0
                         /\ hist'[Len(hist')].val
                                \notin BlockBases(pools[SlotOf(hist'[Len(hist')].pool)])]_vars

\* deallocate has refused a pointer inside an arena off the block
\* boundaries and has taken a block back
ManagerRefusedMisaligned ==
    \E j, k \in 1..Len(hist) :
        /\ hist[j].op = "deallocate" /\ ~hist[j].ok /\ hist[j].val # NULL
        /\ hist[j].pool # 0
        /\ hist[k].op = "deallocate" /\ hist[k].ok

\* a step of thread t through MemoryPool::allocate on the pool in slot i
PoolAllocateStep(t) ==
    LET i == SlotOf(frame[t].pool)
        list == pools[i].freeList
    IN  /\ (pc[t] = "pool_allocate" /\ pc'[t] # pc[t]) =>
               IF list = <<>>
               THEN /\ pools' = pools
                    /\ pc'[t] = "fallback_count"
                    /\ frame'[t].ptr = NULL
               ELSE /\ pc'[t] = "pool_allocated"
                    /\ pools' = [pools EXCEPT ![i].poolMutex = t]
        /\ (pc[t] = "pool_allocated" /\ pc'[t] # pc[t]) =>
               /\ list # <<>>
               /\ pools'[i].freeList = SubSeq(list, 1, Len(list) - 1)
               /\ frame'[t].ptr = list[Len(list)]
               /\ pools'[i].allocatedObjects = pools[i].allocatedObjects + 1
               /\ pools'[i].totalAllocations = pools[i].totalAllocations + 1
               /\ pools'[i].totalDeallocations = pools[i].totalDeallocations
               /\ \A j \in Slots : j # i => pools'[j] = pools[j]

\* C32: MemoryPool::allocate on an empty free list returns null and leaves
\* the pool's free list, allocatedObjects, totalAllocations and
\* totalDeallocations as they are; on a non-empty free list it removes one
\* address, returns it, and adds 1 to allocatedObjects and to totalAllocations
PoolAllocateFrame ==
    [][\A t \in Threads : PoolAllocateStep(t)]_vars

\* a pool has handed out all its blocks and has just turned a caller away
PoolServedAndTurnedAway ==
    \E t \in Threads :
        /\ pc[t] = "fallback_count" /\ frame[t].path = "exhausted"
        /\ frame[t].ptr = NULL
        /\ LET pool == pools[SlotOf(frame[t].pool)]
           IN  /\ pool.freeList = <<>>
               /\ pool.allocatedObjects = pool.objectCount
               /\ pool.totalAllocations = pool.objectCount

\* call e found its pool empty, call j gave one of that pool's blocks back,
\* and call j + 1 asks for the pool's size class again
ReusedAfterExhaustion(e, j) ==
    /\ e < j /\ j + 1 <= Len(hist)
    /\ hist[e].op = "allocate" /\ hist[e].path = "exhausted"
    /\ hist[j].op = "deallocate" /\ hist[j].ok /\ hist[j].path = "pool"
    /\ getPoolIndex(hist[e].size) = SlotOf(hist[j].pool)
    /\ hist[j + 1].op = "allocate"
    /\ hist[j + 1].size >= 1 /\ hist[j + 1].size <= getMaxSupportedSize
    /\ getPoolIndex(hist[j + 1].size) = SlotOf(hist[j].pool)

\* C34: once a pool has run empty and requests were served by the fallback,
\* giving one pool block back makes the next allocation of that class come
\* from the pool again, the fallback counter staying as it was
ExhaustionNotSticky ==
    \A e, j \in 1..Len(hist) :
        ReusedAfterExhaustion(e, j) =>
            /\ hist[j + 1].path = "pool"
            /\ hist[j + 1].pool = hist[j].pool
            /\ hist[j + 1].val = hist[j].val
            /\ AfterCall(j + 1).fallbackAllocations =
                   hist[j + 1].before.fallbackAllocations

\* an exhausted pool got a block back and served the next request with it
PoolServesAgainAfterExhaustion ==
    /\ Quiet
    /\ \E e, j \in 1..Len(hist) :
           /\ ReusedAfterExhaustion(e, j)
           /\ hist[e].val # NULL /\ hist[e].how = "returned"
           /\ hist[j + 1].path = "pool"
           /\ hist[e].before.fallbackAllocations = 0
           /\ fallbackAllocations = 1

\* C35: every allocate call that returns null leaves totalAllocations and
\* fallbackAllocations as they were before the call
NullAllocateLeavesCounters ==
    \A k \in 1..Len(hist) :
        (hist[k].op = "allocate" /\ hist[k].how # "threw" /\ hist[k].val = NULL) =>
            /\ AfterCall(k).totalAllocations = hist[k].before.totalAllocations
            /\ AfterCall(k).fallbackAllocations = hist[k].before.fallbackAllocations

\* the calls up to call k that went to the pool with identity id
PoolCallsUpTo(id, k) == {m \in 1..k : hist[m].pool = id}

\* C40: right after MemoryPool::deallocate(p) has returned true, the next
\* MemoryPool::allocate on that pool, with no other operation on the pool in
\* between, returns p; and a freshly constructed pool hands out its blocks from
\* the highest arena address downwards
PoolReusesLastFreedFirst ==
    /\ \A j, k \in 1..Len(hist) :
           (/\ j < k
            /\ hist[j].op = "deallocate" /\ hist[j].ok /\ hist[j].path = "pool"
            /\ hist[k].op = "allocate" /\ hist[k].path = "pool"
            /\ hist[k].pool = hist[j].pool
            /\ \A m \in (j + 1)..(k - 1) :
                  /\ hist[m].pool # hist[j].pool
                  /\ hist[m].path # "exhausted") =>
               hist[k].val = hist[j].val
    /\ \A k \in 1..Len(hist) :
           (/\ hist[k].op = "allocate" /\ hist[k].path = "pool"
            /\ \A m \in PoolCallsUpTo(hist[k].pool, k) : hist[m].op = "allocate") =>
               LET pool == pools[SlotOf(hist[k].pool)]
                   nth == Cardinality(PoolCallsUpTo(hist[k].pool, k))
               IN  hist[k].val = UAdd(pool.memory,
                                      UTimes(pool.objectSize, pool.objectCount - nth))

\* a pool of two blocks handed out the higher one, then the lower one, took the
\* lower one back and handed it out again
PoolDrainedDownwardsThenReused ==
    /\ Quiet /\ Len(hist) = 4
    /\ \A k \in {1, 2, 4} : hist[k].op = "allocate" /\ hist[k].path = "pool"
    /\ hist[3].op = "deallocate" /\ hist[3].ok
    /\ \A k \in 1..4 : hist[k].pool = hist[1].pool
    /\ LET pool == pools[SlotOf(hist[1].pool)]
       IN  /\ pool.objectCount = 2
           /\ hist[1].val = UAdd(pool.memory, pool.objectSize)
           /\ hist[2].val = pool.memory
    /\ hist[3].val = hist[2].val
    /\ hist[4].val = hist[2].val

\* the sum of the pools' own totalAllocations counters
PoolsTotalAllocations ==
    SumUpTo([i \in Slots |-> IF pools[i].id = 0 THEN 0 ELSE pools[i].totalAllocations],
            MAX_POOLS - 1)

\* the threads that have raised one of two counters that go up together and
\* have yet to raise the other
BetweenCounters(at) == Cardinality({t \in Threads : pc[t] = at})

\* C37 as stated: in every quiescent state the manager's totalAllocations is
\* fallbackAllocations plus the sum of the pools' totalAllocations, and
\* fallbackAllocations <= totalAllocations holds in every reachable state
FallbackNeverAboveTotal ==
    /\ Quiet => totalAllocations = fallbackAllocations + PoolsTotalAllocations
    /\ fallbackAllocations <= totalAllocations

\* C37: in every quiescent state the manager's totalAllocations is
\* fallbackAllocations plus the sum of the pools' totalAllocations and
\* fallbackAllocations <= totalAllocations; in between, fallbackAllocations
\* exceeds totalAllocations by at most the number of threads that have raised
\* the first and not yet the second
FallbackWithinTotalWhenQuiet ==
    /\ Quiet => /\ totalAllocations = fallbackAllocations + PoolsTotalAllocations
                /\ fallbackAllocations <= totalAllocations
    /\ totalAllocations + BetweenCounters("fallback_total") + BetweenCounters("count_alloc")
           = fallbackAllocations + PoolsTotalAllocations
    /\ fallbackAllocations <= totalAllocations + BetweenCounters("fallback_total")

\* every call is over and both a pool and the fallback have served requests
QuietAfterPoolAndFallback ==
    /\ Quiet /\ budget = 0
    /\ fallbackAllocations >= 1
    /\ PoolsTotalAllocations >= 1
    /\ totalAllocations = MaxCalls

\* C39: MemoryManagerAllocator<T>::allocate(0) signals std::bad_alloc: the
\* manager returns null for a request of zero bytes, touching no counter and
\* no pool, and the adapter treats every null as a failure
AllocatorZeroIsBadAlloc ==
    \A k \in AllocatorCalls :
        hist[k].n = 0 =>
            /\ hist[k].size = 0
            /\ hist[k].val = NULL /\ hist[k].how = "returned"
            /\ hist[k].path = "none" /\ hist[k].pool = 0
            /\ hist[k].out = "bad_alloc"
            /\ AfterCall(k) = hist[k].before

\* allocate(0) through the adapter ended in std::bad_alloc, where the same
\* request made of the manager itself returned nullptr to its caller
AllocatorThrewManagerReturnedOnZero ==
    \E j, k \in 1..Len(hist) :
        /\ k \in AllocatorCalls /\ hist[k].n = 0 /\ hist[k].out = "bad_alloc"
        /\ hist[j].op = "allocate" /\ hist[j].via # "allocator"
        /\ hist[j].size = 0 /\ hist[j].val = NULL /\ hist[j].out = "value"

\* a step of thread t through MemoryManager::deallocate with a pointer that
\* no existing pool contains; freeReturns: std::free comes back whatever it is
\* given
UnknownPointerStep(t, freeReturns) ==
    /\ (/\ pc[t] = "idle" /\ pc'[t] # "idle"
        /\ frame'[t].op = "deallocate"
        /\ findPoolForPointer(frame'[t].ptr) = 0) =>
           /\ pc'[t] = "free" /\ frame'[t].path = "fallback"
           /\ pools' = pools /\ totalDeallocations' = totalDeallocations
    /\ (/\ pc[t] = "idle" /\ pc'[t] = "idle"
        /\ Len(hist') > Len(hist)
        /\ hist'[Len(hist')].t = t
        /\ hist'[Len(hist')].op = "deallocate") =>
           hist'[Len(hist')].val = NULL
    /\ (pc[t] = "free" /\ pc'[t] # "free") =>
           \/ /\ pc'[t] = "count_freed"
              /\ heap' = {b \in heap : b.base # frame[t].ptr}
              /\ pools' = pools /\ totalDeallocations' = totalDeallocations
           \/ /\ ~freeReturns
              /\ pc'[t] = "crashed"
              /\ \A b \in heap : b.base # frame[t].ptr
    /\ (pc[t] = "count_freed" /\ pc'[t] # "count_freed") =>
           /\ pc'[t] = "idle"
           /\ totalDeallocations' = totalDeallocations + 1
           /\ pools' = pools
           /\ hist'[Len(hist')].ok /\ hist'[Len(hist')].val = frame[t].ptr

\* C31 as stated: MemoryManager::deallocate of any non-null pointer that no
\* existing pool contains, one this manager never issued included, releases
\* it through the general allocator, increments totalDeallocations and
\* returns true
UnknownPointerFreedAndCounted ==
    [][\A t \in Threads : UnknownPointerStep(t, TRUE)]_vars

\* C31: MemoryManager::deallocate of any non-null pointer that no existing
\* pool contains, one this manager never issued included, hands it to the
\* general allocator without detecting it; when std::free returns,
\* totalDeallocations is incremented and true is returned, and std::free
\* returns whenever the general allocator had issued the pointer
UnknownPointerTakenForFallback ==
    [][\A t \in Threads : UnknownPointerStep(t, FALSE)]_vars

\* the manager has returned true both for a block that another manager had
\* issued and for an address that nobody had issued, and has counted both
ForeignPointersCounted ==
    /\ Quiet
    /\ totalDeallocations = 2
    /\ \E j, k \in 1..Len(hist) :
           /\ hist[j].op = "deallocate" /\ hist[j].from = -1 /\ hist[j].ok
           /\ hist[k].op = "deallocate" /\ hist[k].from = -2 /\ hist[k].ok
           /\ hist[j].path = "fallback" /\ hist[k].path = "fallback"

\* thread t is inside ptr->~T()
InDestructor(t) == pc[t] = "destructor"

\* the block at ptr is on no free list and thread t alone has it: nobody
\* holds it, no other call is being handed it and no other call is on its
\* way to release it (a call that has released it and has yet to count may
\* still carry its address)
BlockStillOut(t, ptr) ==
    /\ \A i \in Slots : pools[i].id # 0 => Occurrences(pools[i].freeList, ptr) = 0
    /\ \A u \in Threads : \A h \in held[u] : h.addr # ptr
    /\ \A u \in Threads \ {t} :
           pc[u] \in {"pool_allocated", "count_alloc", "destructor",
                      "pool_deallocate", "pool_deallocated", "free"} =>
               frame[u].ptr # ptr
    /\ LET pool == findPoolForPointer(ptr)
       IN  IF pool # 0 THEN pools[SlotOf(pool)].allocatedObjects >= 1
           ELSE \E b \in heap : b.base = ptr

\* C33: destroy<T>(ptr) runs the object's destructor strictly before the block
\* goes back to the manager, so the block is never on a free list while its
\* destructor runs; destroy of a null pointer does nothing; construct<T>
\* initializes an object only when the allocation returned non-null
DestructorRunsBeforeRelease ==
    /\ [][\A t \in Threads :
            (/\ frame'[t].via = "destroy"
             /\ pc'[t] \in {"pool_deallocate", "free"}
             /\ pc[t] # pc'[t]) => InDestructor(t)]_vars
    /\ [][\A t \in Threads :
            (/\ pc[t] = "idle" /\ pc'[t] = "idle"
             /\ Len(hist') > Len(hist)
             /\ hist'[Len(hist')].t = t
             /\ hist'[Len(hist')].via = "destroy") =>
                /\ hist'[Len(hist')].val = NULL /\ ~hist'[Len(hist')].ok
                /\ UNCHANGED <<pools, poolInitFlags, heap, held, totalAllocations,
                               totalDeallocations, fallbackAllocations>>]_vars
    /\ [](\A t \in Threads :
            InDestructor(t) => frame[t].ptr # NULL /\ BlockStillOut(t, frame[t].ptr))
    /\ [](\A k \in 1..Len(hist) :
            /\ (hist[k].via = "destroy" /\ hist[k].val # NULL) => hist[k].ok
            /\ hist[k].built => hist[k].val # NULL /\ hist[k].how = "returned"
            /\ (hist[k].via = "construct" /\ hist[k].val # NULL) => hist[k].built)

\* one thread is inside the destructor of an object in a pool block while the
\* other thread, asking for a block of the same pool, finds the pool empty
DestructorRunsWhilePoolExhausted ==
    \E t, u \in Threads :
        /\ t # u
        /\ InDestructor(t)
        /\ findPoolForPointer(frame[t].ptr) # 0
        /\ pc[u] = "fallback_count" /\ frame[u].path = "exhausted"
        /\ frame[u].via = "construct"
        /\ \E k \in 1..Len(hist) : hist[k].built /\ hist[k].val = frame[t].ptr

\* the calls of getActiveAllocations() that have returned
StatsCalls == {k \in 1..Len(hist) : hist[k].op = "getActiveAllocations"}

\* C36 as stated: getActiveAllocations() never wraps, also beside threads
\* that allocate and deallocate what they were given: its two counter reads
\* never yield totalDeallocations > totalAllocations
ActiveAllocationsNeverWraps ==
    \A k \in StatsCalls :
        /\ hist[k].size <= hist[k].n
        /\ hist[k].val = size_t(hist[k].n - hist[k].size)
        /\ hist[k].val[1] = 0

\* C36: totalDeallocations <= totalAllocations at every instant, and
\* getActiveAllocations() does not wrap when it reads totalDeallocations
\* first or when no deallocation is counted between its two reads; when it
\* reads totalAllocations first, the deallocations counted between the reads
\* can carry the second value above the first
ActiveAllocationsWrapsOnlyWhenOvertaken ==
    /\ totalDeallocations <= totalAllocations
    /\ \A k \in StatsCalls :
           /\ hist[k].val = size_t(hist[k].n - hist[k].size)
           /\ hist[k].before.totalDeallocations <= hist[k].before.totalAllocations
           /\ hist[k].path = "deallocations_first" =>
                  /\ hist[k].size = hist[k].before.totalDeallocations
                  /\ hist[k].size <= hist[k].n
           /\ hist[k].path = "allocations_first" =>
                  /\ hist[k].n = hist[k].before.totalAllocations
                  /\ hist[k].size >= hist[k].before.totalDeallocations
                  /\ hist[k].size = hist[k].before.totalDeallocations =>
                         hist[k].size <= hist[k].n

\* getActiveAllocations() has returned 0 - 1 in size_t: it read
\* totalAllocations = 0, the other thread allocated and deallocated a block,
\* and it read totalDeallocations = 1
ActiveAllocationsWrapped ==
    /\ Quiet
    /\ totalAllocations = 1 /\ totalDeallocations = 1
    /\ \E k \in StatsCalls :
           /\ hist[k].path = "allocations_first"
           /\ hist[k].n = 0 /\ hist[k].size = 1
           /\ hist[k].before.totalDeallocations = 0
           /\ hist[k].val = <<SizeLimb - 1, SizeLimb - 1, SizeLimb - 1, SizeLimb - 1>>

\* C38: no thread reads a slot of the pool array, in the scan of
\* findPoolForPointer or in getPoolCount, while another thread's first-use
\* initializer writes that slot: the slots a walk reads stay as they were
\* from the beginning of the walk to its end
SlotReadsOrderedWithSlotWrite ==
    \A t \in Threads :
        pc[t] \in {"find_pool", "count_pools"} => ~SlotWrittenUnderScan(t)

=============================================================================
